---------------------------- MODULE Spec2Model ----------------------------
(***************************************************************************)
(* Clef: semantic analyzer (clef/semantic/analyzer.py) and event compiler  *)
(* (clef/engine/compiler.py) over the AST of clef/ast/nodes.py.            *)
(*                                                                         *)
(* A score is drawn in Init from a bounded family of ASTs; the analyzer    *)
(* walks it staff by staff, voice by voice, measure by measure, one        *)
(* handler call per step, and the compiler then walks the scores that      *)
(* passed.  Rationals are normalised pairs <<numerator, denominator>>,     *)
(* as Python's fractions.Fraction keeps them.                              *)
(***************************************************************************)
EXTENDS Integers, Sequences, FiniteSets, TLC

VARIABLES
    score,      \* the Score AST handed to analyze() and compile()
    pc,         \* "analyze" | "compile" | "done"
    step,       \* index of the next handler call in the walk
    ctx,        \* the analyzer's ValidationContext (plus self.strict, raised)
    result,     \* what analyze() did: "none" | "returned" | "raised"
    cctx,       \* the compiler's CompilerContext
    graph,      \* the compiler's EventGraph
    calls,      \* the compile() calls that returned before this one
    synth       \* the FluidSynthBackend and its playback thread

vars == <<score, pc, step, ctx, result, cctx, graph, calls, synth>>

-----------------------------------------------------------------------------
(* Bounds of the model *)

MaxItems == 3        \* items per measure in the single-measure scores
MaxSmallItems == 2   \* items per measure in the several-measure scores
MaxStaves == 17      \* staves in the many-staff scores
MaxCalls == 3        \* compile() calls in a row
MaxChannel == 1      \* the synthesizer's channels are 0..MaxChannel
MaxEvents == 2       \* events of a played graph

-----------------------------------------------------------------------------
(* fractions.Fraction *)

Abs(n) == IF n < 0 THEN -n ELSE n

RECURSIVE GCD(_, _)
GCD(a, b) == IF b = 0 THEN a ELSE GCD(b, a % b)

Fraction(n, d) ==
    LET g == GCD(Abs(n), d)
    IN  <<n \div g, d \div g>>

Zero == Fraction(0, 1)

FracAdd(x, y) == Fraction(x[1] * y[2] + y[1] * x[2], x[2] * y[2])
FracSub(x, y) == Fraction(x[1] * y[2] - y[1] * x[2], x[2] * y[2])
FracMul(x, y) == Fraction(x[1] * y[1], x[2] * y[2])
FracLt(x, y)  == x[1] * y[2] < y[1] * x[2]
FracMax(x, y) == IF FracLt(x, y) THEN y ELSE x

-----------------------------------------------------------------------------
(* clef/ast/nodes.py *)

semitone_offset(accidental) ==
    CASE accidental = "DOUBLE_FLAT"  -> -2
      [] accidental = "FLAT"         -> -1
      [] accidental = "NATURAL"      -> 0
      [] accidental = "SHARP"        -> 1
      [] accidental = "DOUBLE_SHARP" -> 2

base_notes(name) ==
    CASE name = "C" -> 0 [] name = "D" -> 2 [] name = "E" -> 4
      [] name = "F" -> 5 [] name = "G" -> 7 [] name = "A" -> 9
      [] name = "B" -> 11

\* Pitch.accidental is Optional: "None" stands for no accidental.
Pitch(name, accidental, octave) ==
    [name |-> name, accidental |-> accidental, octave |-> octave]

midi_number(pitch) ==
    LET midi == (pitch.octave + 1) * 12 + base_notes(pitch.name)
    IN  IF pitch.accidental # "None"
        THEN midi + semitone_offset(pitch.accidental)
        ELSE midi

enharmonic_equal(p, other) == midi_number(p) = midi_number(other)

Duration(base_value, dots) == [base_value |-> base_value, dots |-> dots]

RECURSIVE DotLoop(_, _, _)
DotLoop(value, dot_value, dots) ==
    IF dots = 0 THEN value
    ELSE LET half == FracMul(dot_value, Fraction(1, 2))
         IN  DotLoop(FracAdd(value, half), half, dots - 1)

total_value(duration) ==
    DotLoop(duration.base_value, duration.base_value, duration.dots)

TimeSignature(numerator, denominator) ==
    [numerator |-> numerator, denominator |-> denominator]

beats_per_measure(ts) == Fraction(ts.numerator, ts.denominator)

\* Every measure item is a record of one shape; `kind` is the node's class.
\* ("voice", num, item), the tagged tuple the parser slips into a measure
\* for an in-measure voice block, is kind "voice" with contents <<item>>.
Node ==
    [kind |-> "Node", pitches |-> <<>>, duration |-> Duration(Zero, 0),
     tied |-> FALSE, actual |-> 0, normal |-> 0, contents |-> <<>>,
     type |-> "", numerator |-> 0, denominator |-> 0, number |-> 0,
     articulations |-> <<>>, ornaments |-> <<>>, grace_notes |-> <<>>]

Note(pitch, duration, tied) ==
    [Node EXCEPT !.kind = "Note", !.pitches = <<pitch>>,
                 !.duration = duration, !.tied = tied]
Chord(pitches, duration, tied) ==
    [Node EXCEPT !.kind = "Chord", !.pitches = pitches,
                 !.duration = duration, !.tied = tied]
Rest(duration) == [Node EXCEPT !.kind = "Rest", !.duration = duration]
Tuplet(actual, normal, contents) ==
    [Node EXCEPT !.kind = "Tuplet", !.actual = actual, !.normal = normal,
                 !.contents = contents]
Slur(contents) == [Node EXCEPT !.kind = "Slur", !.contents = contents]
Pedal(type) == [Node EXCEPT !.kind = "Pedal", !.type = type]
Dynamic(marking) == [Node EXCEPT !.kind = "Dynamic", !.type = marking]
TimeSig(numerator, denominator) ==
    [Node EXCEPT !.kind = "TimeSignature", !.numerator = numerator,
                 !.denominator = denominator]
VoiceItem(number, item) ==
    [Node EXCEPT !.kind = "voice", !.number = number, !.contents = <<item>>]

ratio(tuplet) == Fraction(tuplet.normal, tuplet.actual)

\* Measure.number is Optional: 0 stands for None (and is falsy as None is).
Measure(number, contents) ==
    [Node EXCEPT !.kind = "Measure", !.number = number, !.contents = contents]
Voice(number, contents) ==
    [Node EXCEPT !.kind = "Voice", !.number = number, !.contents = contents]
\* Staff.instrument is Optional: "" stands for None.
Staff(name, instrument, contents) ==
    [name |-> name, instrument |-> instrument, contents |-> contents]
\* Score.time_signature is Optional: NoTimeSignature stands for None.
\* Score.tempo is Optional: bpm 0 stands for None.
NoTimeSignature == TimeSignature(0, 0)
Score(staves, time_signature) ==
    [staves |-> staves, tempo |-> 0, time_signature |-> time_signature]

\* Ornament(type) and Trill(auxiliary_pitch): the auxiliary pitch is
\* Optional, <<>> standing for None.
Ornament(type) == [type |-> type, auxiliary_pitch |-> <<>>]
GraceNote(pitch) == [pitch |-> pitch, slashed |-> FALSE]

IsNoteOrChord(item) == item.kind \in {"Note", "Chord"}
IsVoiceBlock(item) == item.kind = "voice"

-----------------------------------------------------------------------------
(* clef/semantic/analyzer.py *)

SemanticError(kind, staff, voice, measure, midi) ==
    [kind |-> kind, staff |-> staff, voice |-> voice, measure |-> measure,
     midi |-> midi]

\* ValidationContext(), with the analyzer's self.strict carried along and
\* `raised` set while a SemanticError propagates out of analyze().
ValidationContext(strict) ==
    [strict |-> strict, raised |-> FALSE,
     current_time_signature |-> TimeSignature(4, 4),
     current_staff |-> "", current_voice |-> 0, current_measure |-> 0,
     pending_ties |-> <<>>, pedal_down |-> FALSE,
     errors |-> <<>>, warnings |-> <<>>]

\* Faulty variants of _add_error: one that records without raising, one that
\* records in front of the earlier errors.
AddErrorNoRaise(c, error) == [c EXCEPT !.errors = Append(@, error)]
AddErrorInFront(c, error) ==
    [c EXCEPT !.errors = <<error>> \o @, !.raised = c.strict]

_add_error(c, error) ==
    [c EXCEPT !.errors = Append(@, error), !.raised = c.strict]

_add_warning(c, message) == [c EXCEPT !.warnings = Append(@, message)]

\* A Python dict in insertion order, as a sequence of [key, value] entries
\* (ctx.pending_ties here; the compiler's dicts further down).
Has(dict, key) == \E i \in 1..Len(dict) : dict[i].key = key
Get(dict, key) == dict[CHOOSE i \in 1..Len(dict) : dict[i].key = key].value
Del(dict, key) == SelectSeq(dict, LAMBDA entry : entry.key # key)
Put(dict, key, value) ==
    IF Has(dict, key)
    THEN [i \in 1..Len(dict) |->
            IF dict[i].key = key THEN [key |-> key, value |-> value]
            ELSE dict[i]]
    ELSE Append(dict, [key |-> key, value |-> value])

RECURSIVE _get_item_duration(_, _)
RECURSIVE SumItemDurations(_, _)
SumItemDurations(contents, tuplet_ratio) ==
    IF contents = <<>> THEN Zero
    ELSE FracAdd(_get_item_duration(Head(contents), tuplet_ratio),
                 SumItemDurations(Tail(contents), tuplet_ratio))

_get_item_duration(item, tuplet_ratio) ==
    IF item.kind \in {"Note", "Chord"}
    THEN FracMul(total_value(item.duration), tuplet_ratio)
    ELSE IF item.kind = "Rest"
    THEN FracMul(total_value(item.duration), tuplet_ratio)
    ELSE IF item.kind = "Tuplet"
    THEN SumItemDurations(item.contents, FracMul(ratio(item), tuplet_ratio))
    ELSE IF item.kind = "Slur"
    THEN SumItemDurations(item.contents, tuplet_ratio)
    ELSE Zero

\* `LET x == v IN Body(x)` with v evaluated once, as a Python local is.
Bind(v, Body(_)) == CHOOSE r \in {Body(x) : x \in {v}} : TRUE

\* Lines 400-408: the pitch meets a pending tie of its key.
ResolveTie(c, item, pitch, key) ==
    Bind(IF ~enharmonic_equal(pitch, Get(c.pending_ties, key))
         THEN _add_error(c, SemanticError("tie_resolution", c.current_staff,
                  c.current_voice, c.current_measure, key[3]))
         ELSE c,
         LAMBDA c0 : IF c0.raised THEN c0
                     ELSE [c0 EXCEPT !.pending_ties = Del(@, key)])

\* Lines 396-412: one pitch of the note or chord.
ValidatePitch(c, item, pitch) ==
    Bind(<<c.current_staff, c.current_voice, midi_number(pitch)>>, LAMBDA key :
    Bind(IF Has(c.pending_ties, key) THEN ResolveTie(c, item, pitch, key)
         ELSE c,
         LAMBDA c1 : IF c1.raised THEN c1
                     ELSE IF item.tied
                     THEN [c1 EXCEPT !.pending_ties = Put(@, key, pitch)]
                     ELSE c1))

RECURSIVE ValidatePitches(_, _, _)
ValidatePitches(c, item, i) ==
    IF c.raised \/ i > Len(item.pitches) THEN c
    ELSE ValidatePitches(ValidatePitch(c, item, item.pitches[i]), item, i + 1)

_validate_note_or_chord(c, item) == ValidatePitches(c, item, 1)

\* Lines 416-433: the three checks of a tuplet.
TupletChecks(c, tuplet) ==
    Bind(SemanticError("", c.current_staff, c.current_voice, c.current_measure, 0),
         LAMBDA loc :
    Bind(IF tuplet.actual <= 0
         THEN _add_error(c, [loc EXCEPT !.kind = "tuplet_actual"]) ELSE c,
         LAMBDA c1 :
    Bind(IF ~c1.raised /\ tuplet.normal <= 0
         THEN _add_error(c1, [loc EXCEPT !.kind = "tuplet_normal"]) ELSE c1,
         LAMBDA c2 :
         IF ~c2.raised /\ tuplet.contents = <<>>
         THEN _add_error(c2, [loc EXCEPT !.kind = "tuplet_empty"]) ELSE c2)))

\* Lines 436-441 (nested = FALSE) and 448-452 (nested = TRUE, the loop of
\* _validate_slur): notes, chords and tuplets are validated, the rest is not.
RECURSIVE ValidateContents(_, _)
ValidateContents(c, contents) ==
    IF c.raised \/ contents = <<>> THEN c
    ELSE ValidateContents(
             IF IsNoteOrChord(Head(contents))
             THEN _validate_note_or_chord(c, Head(contents))
             ELSE IF Head(contents).kind = "Tuplet"
             THEN ValidateContents(TupletChecks(c, Head(contents)),
                                   Head(contents).contents)
             ELSE c,
             Tail(contents))

_validate_tuplet(c, tuplet) ==
    ValidateContents(TupletChecks(c, tuplet), tuplet.contents)

_validate_slur(c, slur) ==
    ValidateContents(
        IF slur.contents = <<>> THEN _add_warning(c, "empty_slur") ELSE c,
        slur.contents)

\* Faulty variant of _validate_pedal: a release while the pedal is up passes.
ValidatePedalNoUpCheck(c, pedal) ==
    IF pedal.type = "DOWN"
    THEN [(IF c.pedal_down THEN _add_warning(c, "pedal_already_down") ELSE c)
            EXCEPT !.pedal_down = TRUE]
    ELSE IF pedal.type = "UP" THEN [c EXCEPT !.pedal_down = FALSE]
    ELSE IF pedal.type = "CHANGE" THEN [c EXCEPT !.pedal_down = TRUE]
    ELSE c

_validate_pedal(c, pedal) ==
    IF pedal.type = "DOWN"
    THEN [(IF c.pedal_down THEN _add_warning(c, "pedal_already_down") ELSE c)
            EXCEPT !.pedal_down = TRUE]
    ELSE IF pedal.type = "UP"
    THEN IF ~c.pedal_down
         THEN Bind(_add_error(c, SemanticError("pedal_up", c.current_staff,
                       c.current_voice, c.current_measure, 0)),
                   LAMBDA c1 : IF c1.raised THEN c1
                               ELSE [c1 EXCEPT !.pedal_down = FALSE])
         ELSE [c EXCEPT !.pedal_down = FALSE]
    ELSE IF pedal.type = "CHANGE"
    THEN [c EXCEPT !.pedal_down = TRUE]
    ELSE c

valid_dynamics ==
    {"ppp", "pp", "p", "mp", "mf", "f", "ff", "fff", "fp", "sfz", "sf"}

_validate_dynamic(c, dynamic) ==
    IF dynamic.type \notin valid_dynamics
    THEN _add_error(c, SemanticError("unknown_dynamic", c.current_staff,
             c.current_voice, c.current_measure, 0))
    ELSE c

One == Fraction(1, 1)

\* sorted(voice_blocks.keys())
RECURSIVE Sorted(_)
Sorted(S) ==
    IF S = {} THEN <<>>
    ELSE Bind(CHOOSE x \in S : \A y \in S : x <= y,
              LAMBDA m : <<m>> \o Sorted(S \ {m}))

\* The per-item dispatch of the loops at lines 286-296 and 338-356.
ValidateItem(c, item, in_voice_block) ==
    IF IsNoteOrChord(item) THEN _validate_note_or_chord(c, item)
    ELSE IF item.kind = "Tuplet" THEN _validate_tuplet(c, item)
    ELSE IF item.kind = "Slur" THEN _validate_slur(c, item)
    ELSE IF in_voice_block THEN c
    ELSE IF item.kind = "Pedal" THEN _validate_pedal(c, item)
    ELSE IF item.kind = "Dynamic" THEN _validate_dynamic(c, item)
    ELSE IF item.kind = "TimeSignature"
    THEN [c EXCEPT !.current_time_signature =
             TimeSignature(item.numerator, item.denominator)]
    ELSE c

RECURSIVE ValidateItems(_, _, _)
ValidateItems(c, items, in_voice_block) ==
    IF c.raised \/ items = <<>> THEN c
    ELSE ValidateItems(ValidateItem(c, Head(items), in_voice_block),
                       Tail(items), in_voice_block)

\* voice_blocks[voice_num]: the items tagged with voice_num, in order.
VoiceBlockItems(measure, voice_num) ==
    Bind(SelectSeq(measure.contents,
                   LAMBDA it : IsVoiceBlock(it) /\ it.number = voice_num),
         LAMBDA tagged : [i \in 1..Len(tagged) |-> tagged[i].contents[1]])

VoiceBlockNumbers(measure) ==
    {measure.contents[i].number :
        i \in {j \in 1..Len(measure.contents) : IsVoiceBlock(measure.contents[j])}}

\* Lines 282-298: each voice block in turn, under its own voice number.
RECURSIVE ValidateVoiceBlocks(_, _, _)
ValidateVoiceBlocks(c, measure, voice_nums) ==
    IF c.raised \/ voice_nums = <<>> THEN c
    ELSE ValidateVoiceBlocks(
             ValidateItems([c EXCEPT !.current_voice = Head(voice_nums)],
                           VoiceBlockItems(measure, Head(voice_nums)), TRUE),
             measure, Tail(voice_nums))

MeasureNumber(c, measure) ==
    IF measure.number # 0 THEN measure.number ELSE c.current_measure

\* Faulty variant of CheckSynchronized: the voices are not compared.
CheckSynchronizedSkipped(c, measure, voice_nums, first_duration) == c

\* Lines 303-312: one error for each voice that differs from the first.
RECURSIVE CheckSynchronized(_, _, _, _)
CheckSynchronized(c, measure, voice_nums, first_duration) ==
    IF c.raised \/ voice_nums = <<>> THEN c
    ELSE CheckSynchronized(
             IF SumItemDurations(VoiceBlockItems(measure, Head(voice_nums)), One)
                    # first_duration
             THEN _add_error(c, SemanticError("voices_not_synchronized",
                      c.current_staff, Head(voice_nums),
                      MeasureNumber(c, measure), 0))
             ELSE c,
             measure, Tail(voice_nums), first_duration)

\* Lines 315-322: the synchronized duration against the time signature.
CheckVoiceBlockDuration(c, measure, first_duration, expected_duration) ==
    IF ~c.raised /\ first_duration # expected_duration
    THEN _add_error(c, SemanticError("voice_block_duration", c.current_staff, 0,
             MeasureNumber(c, measure), 0))
    ELSE c

\* Lines 327-333: what is left of a measure that holds voice blocks.
RECURSIVE ValidateOtherContent(_, _)
ValidateOtherContent(c, other_content) ==
    IF c.raised \/ other_content = <<>> THEN c
    ELSE ValidateOtherContent(
             IF Head(other_content).kind
                    \in {"Pedal", "Dynamic", "TimeSignature"}
             THEN ValidateItem(c, Head(other_content), FALSE)
             ELSE c,
             Tail(other_content))

\* Lines 276-333: a measure that holds voice blocks.
ValidateVoiceBlockMeasure(c, measure, expected_duration) ==
    Bind(Sorted(VoiceBlockNumbers(measure)), LAMBDA voice_nums :
    Bind(SumItemDurations(VoiceBlockItems(measure, voice_nums[1]), One),
         LAMBDA first_duration :
    Bind(CheckVoiceBlockDuration(
             CheckSynchronized(ValidateVoiceBlocks(c, measure, voice_nums),
                               measure, voice_nums, first_duration),
             measure, first_duration, expected_duration),
         LAMBDA c3 :
         IF c3.raised THEN c3
         ELSE ValidateOtherContent(
                  [c3 EXCEPT !.current_voice = c.current_voice],
                  SelectSeq(measure.contents, LAMBDA it : ~IsVoiceBlock(it))))))

\* expected_duration after the loop of lines 338-356: the last mid-measure
\* time signature the loop met, if any.
RECURSIVE ExpectedAfter(_, _)
ExpectedAfter(expected_duration, items) ==
    IF items = <<>> THEN expected_duration
    ELSE ExpectedAfter(
             IF Head(items).kind = "TimeSignature"
             THEN Fraction(Head(items).numerator, Head(items).denominator)
             ELSE expected_duration,
             Tail(items))

\* Faulty variant of CheckMeasureDuration: only a short measure is rejected.
CheckMeasureDurationShortOnly(c, measure, actual_duration, expected_duration) ==
    IF ~c.raised /\ FracLt(actual_duration, expected_duration)
    THEN _add_error(c, SemanticError("measure_duration", c.current_staff,
             c.current_voice, MeasureNumber(c, measure), 0))
    ELSE c

\* Lines 359-366: the duration check of a plain measure.
CheckMeasureDuration(c, measure, actual_duration, expected_duration) ==
    IF ~c.raised /\ actual_duration # expected_duration
    THEN _add_error(c, SemanticError("measure_duration", c.current_staff,
             c.current_voice, MeasureNumber(c, measure), 0))
    ELSE c

_validate_measure(c, measure) ==
    IF VoiceBlockNumbers(measure) # {}
    THEN ValidateVoiceBlockMeasure(c, measure,
             beats_per_measure(c.current_time_signature))
    ELSE CheckMeasureDuration(
             ValidateItems(c, measure.contents, FALSE), measure,
             SumItemDurations(measure.contents, One),
             ExpectedAfter(beats_per_measure(c.current_time_signature),
                           measure.contents))

\* ctx.known_instruments (an excerpt of the table at lines 81-117).
known_instruments == {"piano", "violin", "flute", "strings"}

_validate_instrument(c, instrument) ==
    IF instrument \notin known_instruments
    THEN _add_warning(c, "unknown_instrument")
    ELSE c

Voices(staff) == SelectSeq(staff.contents, LAMBDA it : it.kind = "Voice")
DirectMeasures(staff) == SelectSeq(staff.contents, LAMBDA it : it.kind = "Measure")
Measures(voice) == SelectSeq(voice.contents, LAMBDA it : it.kind = "Measure")

\* The directive scan of _validate_staff (211-223) and _validate_voice (245-251).
RECURSIVE ScanDirectives(_, _)
ScanDirectives(c, contents) ==
    IF contents = <<>> THEN c
    ELSE ScanDirectives(
             IF Head(contents).kind = "TimeSignature"
             THEN [c EXCEPT !.current_time_signature =
                      TimeSignature(Head(contents).numerator,
                                    Head(contents).denominator)]
             ELSE c,
             Tail(contents))

\* _validate_staff up to its first call of _validate_voice / _validate_measure.
_validate_staff(c, staff) ==
    ScanDirectives(
        IF staff.instrument # ""
        THEN _validate_instrument([c EXCEPT !.current_staff = staff.name],
                                  staff.instrument)
        ELSE [c EXCEPT !.current_staff = staff.name],
        staff.contents)

\* _validate_voice up to its first call of _validate_measure.
_validate_voice(c, voice) ==
    ScanDirectives([c EXCEPT !.current_voice = voice.number], voice.contents)

\* Lines 253-255: the i-th measure of a voice.
ValidateVoiceMeasure(c, measure, i) ==
    _validate_measure(
        [c EXCEPT !.current_measure =
            IF measure.number # 0 THEN measure.number ELSE i],
        measure)

\* Lines 230-234: the i-th directly placed measure of a staff, as voice 1.
ValidateDirectMeasure(c, measure, i) ==
    _validate_measure(
        [c EXCEPT !.current_voice = IF i = 1 THEN 1 ELSE @,
                  !.current_measure = i],
        measure)

RECURSIVE VoiceTotal(_)
VoiceTotal(measures) ==
    IF measures = <<>> THEN Zero
    ELSE FracAdd(SumItemDurations(Head(measures).contents, One),
                 VoiceTotal(Tail(measures)))

_validate_voice_alignment(c, voices) ==
    LET last(n) == CHOOSE i \in 1..Len(voices) :
                       /\ voices[i].number = n
                       /\ \A j \in i+1..Len(voices) : voices[j].number # n
        voice_durations ==
            {VoiceTotal(Measures(voices[last(voices[i].number)])) :
                i \in 1..Len(voices)}
        c1 == [c EXCEPT !.current_voice = voices[Len(voices)].number]
    IN  IF Cardinality(voice_durations) > 1
        THEN _add_warning(c1, "voices_differ")
        ELSE c1

\* Faulty variant of UnresolvedTies: only the first pending tie is reported.
UnresolvedTiesFirstOnly(c, pending) ==
    IF c.raised \/ pending = <<>> THEN c
    ELSE _add_error(c, SemanticError("unresolved_tie", Head(pending).key[1],
                        Head(pending).key[2], 0, Head(pending).key[3]))

\* analyze, lines 173-180: one error for each tie still pending.
RECURSIVE UnresolvedTies(_, _)
UnresolvedTies(c, pending) ==
    IF c.raised \/ pending = <<>> THEN c
    ELSE UnresolvedTies(
             _add_error(c, SemanticError("unresolved_tie", Head(pending).key[1],
                            Head(pending).key[2], 0, Head(pending).key[3])),
             Tail(pending))

\* Faulty variant of AnalyzeEnd: collected errors are raised in either mode.
AnalyzeEndRaisesOnErrors(c) ==
    Bind(UnresolvedTies(c, c.pending_ties), LAMBDA c1 :
         IF c1.errors # <<>> THEN [c1 EXCEPT !.raised = TRUE] ELSE c1)

\* analyze, lines 173-185; `raised` of the result tells a raise from a return.
AnalyzeEnd(c) ==
    Bind(UnresolvedTies(c, c.pending_ties), LAMBDA c1 :
         IF ~c1.raised /\ c1.strict /\ c1.errors # <<>>
         THEN [c1 EXCEPT !.raised = TRUE]
         ELSE c1)

\* analyze, lines 159-167.
AnalyzeBegin(sc, strict) ==
    LET c == ValidationContext(strict)
    IN  IF sc.time_signature # NoTimeSignature
        THEN [c EXCEPT !.current_time_signature = sc.time_signature]
        ELSE c

-----------------------------------------------------------------------------
(* The walk of analyze(): the handler calls in the order the code makes them *)

Work(op, s, v, m) == [op |-> op, staff |-> s, voice |-> v, measure |-> m]

RECURSIVE Concat(_)
Concat(seqs) == IF seqs = <<>> THEN <<>> ELSE Head(seqs) \o Concat(Tail(seqs))

\* _validate_voice: the voice, then each of its measures.
VoiceWalk(staff, s, v) ==
    <<Work("voice", s, v, 0)>> \o
    [m \in 1..Len(Measures(Voices(staff)[v])) |-> Work("measure", s, v, m)]

\* _validate_staff: the voices, the direct measures, the alignment check.
StaffWalk(staff, s) ==
    <<Work("staff", s, 0, 0)>> \o
    Concat([v \in 1..Len(Voices(staff)) |-> VoiceWalk(staff, s, v)]) \o
    [m \in 1..Len(DirectMeasures(staff)) |-> Work("direct", s, 0, m)] \o
    (IF Len(Voices(staff)) > 1 THEN <<Work("align", s, 0, 0)>> ELSE <<>>)

Walk(sc) ==
    Concat([s \in 1..Len(sc.staves) |-> StaffWalk(sc.staves[s], s)]) \o
    <<Work("finish", 0, 0, 0)>>

\* One handler call of the walk, applied to the context.
AnalyzeStep(c, sc, w) ==
    LET staff == sc.staves[w.staff]
    IN  CASE w.op = "staff"   -> _validate_staff(c, staff)
          [] w.op = "voice"   -> _validate_voice(c, Voices(staff)[w.voice])
          [] w.op = "measure" ->
                ValidateVoiceMeasure(c,
                    Measures(Voices(staff)[w.voice])[w.measure], w.measure)
          [] w.op = "direct"  ->
                ValidateDirectMeasure(c, DirectMeasures(staff)[w.measure],
                                      w.measure)
          [] w.op = "align"   -> _validate_voice_alignment(c, Voices(staff))
          [] w.op = "finish"  -> AnalyzeEnd(c)

\* analyze(score, strict) as one function: the walk applied from start to
\* end, stopping where a SemanticError is raised.
RECURSIVE RunWalk(_, _, _)
RunWalk(c, sc, walk) ==
    IF c.raised \/ walk = <<>> THEN c
    ELSE RunWalk(AnalyzeStep(c, sc, Head(walk)), sc, Tail(walk))

Analyze(sc, strict) == RunWalk(AnalyzeBegin(sc, strict), sc, Walk(sc))

-----------------------------------------------------------------------------
(* clef/engine/events.py *)

\* Every event is a record of one shape; `type` is the event's class.
Event(type, start_time, staff_id, voice_id) ==
    [type |-> type, start_time |-> start_time, staff_id |-> staff_id,
     voice_id |-> voice_id, midi_note |-> 0, duration |-> Zero,
     velocity |-> 0, articulations |-> {}, is_tied_from |-> FALSE,
     is_tied_to |-> FALSE, channel |-> 0, bpm |-> 0, numerator |-> 0,
     denominator |-> 0, marking |-> "", value |-> 0, program |-> 0]

NoteEvent(start_time, staff_id, voice_id, midi_note, duration, velocity, channel) ==
    [Event("NoteEvent", start_time, staff_id, voice_id) EXCEPT
        !.midi_note = midi_note, !.duration = duration,
        !.velocity = velocity, !.channel = channel]
\* Faulty variant of effective_duration: every note is slightly detached.
EffectiveDurationDetached(event) ==
    FracMul(event.duration, Fraction(9, 10))

\* NoteEvent.effective_duration
effective_duration(event) ==
    IF "staccato" \in event.articulations
    THEN FracMul(event.duration, Fraction(1, 2))
    ELSE IF "staccatissimo" \in event.articulations
    THEN FracMul(event.duration, Fraction(1, 4))
    ELSE IF "tenuto" \in event.articulations \/ "legato" \in event.articulations
    THEN event.duration
    ELSE FracMul(event.duration, Fraction(9, 10))

RestEvent(start_time, staff_id, voice_id, duration) ==
    [Event("RestEvent", start_time, staff_id, voice_id) EXCEPT
        !.duration = duration]
TempoEvent(start_time, staff_id, voice_id, bpm) ==
    [Event("TempoEvent", start_time, staff_id, voice_id) EXCEPT !.bpm = bpm]
TimeSignatureEvent(start_time, staff_id, voice_id, numerator, denominator) ==
    [Event("TimeSignatureEvent", start_time, staff_id, voice_id) EXCEPT
        !.numerator = numerator, !.denominator = denominator]
DynamicEvent(start_time, staff_id, voice_id, marking, velocity) ==
    [Event("DynamicEvent", start_time, staff_id, voice_id) EXCEPT
        !.marking = marking, !.velocity = velocity]
PedalEvent(start_time, staff_id, voice_id, value) ==
    [Event("PedalEvent", start_time, staff_id, voice_id) EXCEPT !.value = value]
ProgramChangeEvent(start_time, staff_id, voice_id, program, channel) ==
    [Event("ProgramChangeEvent", start_time, staff_id, voice_id) EXCEPT
        !.program = program, !.channel = channel]

EventGraph ==
    [events |-> <<>>, initial_tempo |-> 120, initial_time_signature |-> <<4, 4>>]

_event_priority(event) ==
    CASE event.type = "TempoEvent"         -> 0
      [] event.type = "TimeSignatureEvent" -> 1
      [] event.type = "ProgramChangeEvent" -> 2
      [] event.type = "DynamicEvent"       -> 3
      [] event.type = "PedalEvent"         -> 4
      [] event.type = "NoteEvent"          -> 10
      [] OTHER                             -> 20

\* Faulty variant of sort: an event goes in front of the events of its own
\* key.
RECURSIVE SortNewestFirst(_, _)
SortNewestFirst(sorted, events) ==
    IF events = <<>> THEN sorted
    ELSE Bind(Len(SelectSeq(sorted, LAMBDA x :
                  \/ FracLt(x.start_time, Head(events).start_time)
                  \/ /\ Head(events).start_time = x.start_time
                     /\ _event_priority(x) < _event_priority(Head(events)))),
              LAMBDA k :
              SortNewestFirst(SubSeq(sorted, 1, k) \o <<Head(events)>>
                                  \o SubSeq(sorted, k + 1, Len(sorted)),
                              Tail(events)))

\* EventGraph.sort: list.sort is stable, so an event goes behind every
\* event whose key (start_time, priority) is not greater than its own.
RECURSIVE sort(_, _)
sort(sorted, events) ==
    IF events = <<>> THEN sorted
    ELSE Bind(Len(SelectSeq(sorted, LAMBDA x :
                  ~(\/ FracLt(Head(events).start_time, x.start_time)
                    \/ /\ Head(events).start_time = x.start_time
                       /\ _event_priority(Head(events)) < _event_priority(x)))),
              LAMBDA k :
              sort(SubSeq(sorted, 1, k) \o <<Head(events)>>
                       \o SubSeq(sorted, k + 1, Len(sorted)),
                   Tail(events)))

-----------------------------------------------------------------------------
(* clef/engine/compiler.py; `self` is the compiler: [ctx, graph].  The      *)
(* handlers' return value, the duration consumed, is used by no caller and  *)
(* is left out.                                                             *)

CompilerContext ==
    [current_time |-> Zero, staff_id |-> "", voice_id |-> 1, channel |-> 0,
     tempo |-> 120, time_signature |-> <<4, 4>>, current_velocity |-> 80,
     pending_ties |-> <<>>, next_channel |-> 0, staff_channels |-> <<>>,
     channel_programs |-> <<>>]

\* GM_INSTRUMENTS.get(name.lower(), 0), an excerpt of the table.
GM_INSTRUMENTS(name) ==
    CASE name = "piano"   -> 0
      [] name = "violin"  -> 40
      [] name = "strings" -> 48
      [] name = "flute"   -> 73
      [] OTHER            -> 0

\* Dynamic.velocity()
velocity(marking) ==
    CASE marking = "ppp" -> 16  [] marking = "pp"  -> 33
      [] marking = "p"   -> 49  [] marking = "mp"  -> 64
      [] marking = "mf"  -> 80  [] marking = "f"   -> 96
      [] marking = "ff"  -> 112 [] marking = "fff" -> 127
      [] marking = "fp"  -> 96  [] marking = "sfz" -> 127
      [] marking = "sf"  -> 112 [] OTHER           -> 80

\* art.type.name.lower()
lower(name) ==
    CASE name = "STACCATO"      -> "staccato"
      [] name = "STACCATISSIMO" -> "staccatissimo"
      [] name = "LEGATO"        -> "legato"
      [] name = "ACCENT"        -> "accent"
      [] name = "TENUTO"        -> "tenuto"
      [] name = "MARCATO"       -> "marcato"
      [] name = "FERMATA"       -> "fermata"

add(self, event) == [self EXCEPT !.graph.events = Append(@, event)]

\* compile, lines 268-293.
CompileBegin(sc) ==
    Bind(IF sc.tempo # 0
         THEN add([ctx   |-> [CompilerContext EXCEPT !.tempo = sc.tempo],
                   graph |-> [EventGraph EXCEPT !.initial_tempo = sc.tempo]],
                  TempoEvent(Zero, "__global__", 0, sc.tempo))
         ELSE [ctx |-> CompilerContext, graph |-> EventGraph],
         LAMBDA self :
         IF sc.time_signature # NoTimeSignature
         THEN add([self EXCEPT
                      !.ctx.time_signature =
                          <<sc.time_signature.numerator,
                            sc.time_signature.denominator>>,
                      !.graph.initial_time_signature =
                          <<sc.time_signature.numerator,
                            sc.time_signature.denominator>>],
                  TimeSignatureEvent(Zero, "__global__", 0,
                      sc.time_signature.numerator,
                      sc.time_signature.denominator))
         ELSE self)

\* Faulty variant of _allocate_channel: channel 9 is handed out like any
\* other.
AllocateChannelNoSkip(self, staff_id) ==
    IF Has(self.ctx.staff_channels, staff_id)
    THEN [self EXCEPT !.ctx.channel = Get(self.ctx.staff_channels, staff_id)]
    ELSE [self EXCEPT
             !.ctx.staff_channels = Put(@, staff_id, self.ctx.next_channel),
             !.ctx.next_channel = self.ctx.next_channel + 1,
             !.ctx.channel = self.ctx.next_channel]

\* _allocate_channel together with the assignment of its result to
\* ctx.channel (line 321).
_allocate_channel(self, staff_id) ==
    IF Has(self.ctx.staff_channels, staff_id)
    THEN [self EXCEPT !.ctx.channel = Get(self.ctx.staff_channels, staff_id)]
    ELSE Bind(IF self.ctx.next_channel = 9 THEN 10 ELSE self.ctx.next_channel,
              LAMBDA channel :
              [self EXCEPT !.ctx.staff_channels = Put(@, staff_id, channel),
                           !.ctx.next_channel = channel + 1,
                           !.ctx.channel = channel])

\* _compile_staff up to its first call of _compile_voice / _compile_content.
_compile_staff(self, staff) ==
    Bind([_allocate_channel([self EXCEPT !.ctx.staff_id = staff.name], staff.name)
             EXCEPT !.ctx.current_time = Zero],
         LAMBDA s1 :
         IF staff.instrument # ""
         THEN add([s1 EXCEPT !.ctx.channel_programs =
                       Put(@, s1.ctx.channel, GM_INSTRUMENTS(staff.instrument))],
                  ProgramChangeEvent(Zero, staff.name, 0,
                      GM_INSTRUMENTS(staff.instrument), s1.ctx.channel))
         ELSE s1)

\* Faulty variant of _compile_voice: the cursor of the voice compiled before
\* stays in force.
CompileVoiceKeepsCursor(self, voice) ==
    [self EXCEPT !.ctx.voice_id = voice.number]

\* _compile_voice up to its first call of _compile_content.
_compile_voice(self, voice) ==
    [self EXCEPT !.ctx.voice_id = voice.number, !.ctx.current_time = Zero]

\* Faulty variant of CompileGraceNotes: the grace notes all start with the
\* first.
RECURSIVE CompileGraceNotesTogether(_, _, _, _)
CompileGraceNotesTogether(self, grace_notes, grace_unit, grace_duration) ==
    IF grace_notes = <<>> THEN self
    ELSE Bind(add(self, NoteEvent(FracAdd(self.ctx.current_time, grace_duration),
                      self.ctx.staff_id, self.ctx.voice_id,
                      midi_number(Head(grace_notes).pitch), grace_unit,
                      self.ctx.current_velocity, self.ctx.channel)),
              LAMBDA s1 :
              CompileGraceNotesTogether(s1, Tail(grace_notes), grace_unit,
                                        grace_duration))

\* Lines 462-474: the grace notes, each an eighth of the main note.
RECURSIVE CompileGraceNotes(_, _, _, _)
CompileGraceNotes(self, grace_notes, grace_unit, grace_duration) ==
    IF grace_notes = <<>> THEN self
    ELSE Bind(add(self, NoteEvent(FracAdd(self.ctx.current_time, grace_duration),
                      self.ctx.staff_id, self.ctx.voice_id,
                      midi_number(Head(grace_notes).pitch), grace_unit,
                      self.ctx.current_velocity, self.ctx.channel)),
              LAMBDA s1 :
              CompileGraceNotes(s1, Tail(grace_notes), grace_unit,
                                FracAdd(grace_duration, grace_unit)))

\* Faulty variant of CompilePitch: the event a tie is fused into stays in
\* the graph beside the extended one.
CompilePitchKeepsTiedPart(self, midi_note, start, event_duration, duration, flags, tied) ==
    Bind(<<self.ctx.staff_id, self.ctx.voice_id, midi_note>>, LAMBDA tie_key :
    IF Has(self.ctx.pending_ties, tie_key)
    THEN Bind([Get(self.ctx.pending_ties, tie_key) EXCEPT
                  !.duration = FracAdd(@, duration), !.is_tied_to = tied],
              LAMBDA extended :
              [self EXCEPT
                  !.ctx.pending_ties =
                      IF tied THEN Put(Del(@, tie_key), tie_key, extended)
                      ELSE Del(@, tie_key),
                  !.graph.events = Append(@, extended)])
    ELSE Bind([NoteEvent(start, self.ctx.staff_id, self.ctx.voice_id,
                         midi_note, event_duration, self.ctx.current_velocity,
                         self.ctx.channel)
                  EXCEPT !.articulations = flags,
                         !.is_tied_to = tied],
              LAMBDA event :
              [self EXCEPT
                  !.ctx.pending_ties = IF tied THEN Put(@, tie_key, event) ELSE @,
                  !.graph.events = Append(@, event)]))

\* Lines 481-521 of _compile_note and 546-580 of _compile_chord: one pitch,
\* fused into the event of a pending tie or emitted as a new event.
CompilePitch(self, midi_note, start, event_duration, duration, flags, tied) ==
    Bind(<<self.ctx.staff_id, self.ctx.voice_id, midi_note>>, LAMBDA tie_key :
    IF Has(self.ctx.pending_ties, tie_key)
    THEN Bind(Get(self.ctx.pending_ties, tie_key), LAMBDA prev_event :
         Bind([prev_event EXCEPT !.duration = FracAdd(@, duration),
                                 !.is_tied_to = tied],
              LAMBDA extended :
              [self EXCEPT
                  !.ctx.pending_ties =
                      IF tied THEN Put(Del(@, tie_key), tie_key, extended)
                      ELSE Del(@, tie_key),
                  !.graph.events =
                      Append(SelectSeq(@, LAMBDA ev : ev # prev_event),
                             extended)]))
    ELSE Bind([NoteEvent(start, self.ctx.staff_id, self.ctx.voice_id,
                         midi_note, event_duration, self.ctx.current_velocity,
                         self.ctx.channel)
                  EXCEPT !.articulations = flags,
                         !.is_tied_to = tied],
              LAMBDA event :
              [self EXCEPT
                  !.ctx.pending_ties = IF tied THEN Put(@, tie_key, event) ELSE @,
                  !.graph.events = Append(@, event)]))

\* The events of an ornament: the pitches in turn, one unit apart.
RECURSIVE OrnamentNotes(_, _, _, _)
OrnamentNotes(self, pitches, start, unit) ==
    IF pitches = <<>> THEN self
    ELSE Bind(add(self, NoteEvent(start, self.ctx.staff_id, self.ctx.voice_id,
                      Head(pitches), unit, self.ctx.current_velocity,
                      self.ctx.channel)),
              LAMBDA s1 :
              OrnamentNotes(s1, Tail(pitches), FracAdd(start, unit), unit))

_apply_ornament(self, ornament, note, duration) ==
    Bind(midi_number(note.pitches[1]), LAMBDA main_note :
    Bind(FracSub(self.ctx.current_time, duration), LAMBDA start :
    IF ornament.type = "TRILL"
    THEN Bind(IF ornament.auxiliary_pitch # <<>>
              THEN midi_number(ornament.auxiliary_pitch[1])
              ELSE main_note + 2,
              LAMBDA trill_note :
              OrnamentNotes(self,
                  <<main_note, trill_note, main_note, trill_note,
                    main_note, trill_note, main_note, trill_note>>,
                  start, FracMul(duration, Fraction(1, 8))))
    ELSE IF ornament.type = "MORDENT"
    THEN OrnamentNotes(self, <<main_note, main_note + 2>>, start,
                       FracMul(duration, Fraction(1, 8)))
    ELSE IF ornament.type = "TURN"
    THEN OrnamentNotes(self,
             <<main_note + 2, main_note, main_note - 2, main_note>>,
             start, FracMul(duration, Fraction(1, 4)))
    ELSE self))

\* Lines 524-525.
RECURSIVE ApplyOrnaments(_, _, _, _)
ApplyOrnaments(self, ornaments, note, duration) ==
    IF ornaments = <<>> THEN self
    ELSE Bind(_apply_ornament(self, Head(ornaments), note, duration),
              LAMBDA s1 : ApplyOrnaments(s1, Tail(ornaments), note, duration))

articulation_flags(item) ==
    {lower(item.articulations[i]) : i \in 1..Len(item.articulations)}

AdvanceTime(self, duration) ==
    [self EXCEPT !.ctx.current_time = FracAdd(@, duration)]

\* Faulty variant of _compile_note: the grace notes take no time from the
\* main note.
CompileNoteGraceOnTop(self, note, tuplet_ratio) ==
    Bind(FracMul(total_value(note.duration), tuplet_ratio), LAMBDA duration :
    AdvanceTime(
        ApplyOrnaments(
            CompilePitch(
                CompileGraceNotes(self, note.grace_notes,
                                  FracMul(duration, Fraction(1, 8)), Zero),
                midi_number(note.pitches[1]), self.ctx.current_time,
                duration, duration, articulation_flags(note), note.tied),
            note.ornaments, note, duration),
        duration))

_compile_note(self, note, tuplet_ratio) ==
    Bind(FracMul(total_value(note.duration), tuplet_ratio), LAMBDA duration :
    Bind(FracMul(Fraction(Len(note.grace_notes), 1),
                 FracMul(duration, Fraction(1, 8))),
         LAMBDA grace_duration :
    AdvanceTime(
        ApplyOrnaments(
            CompilePitch(
                CompileGraceNotes(self, note.grace_notes,
                                  FracMul(duration, Fraction(1, 8)), Zero),
                midi_number(note.pitches[1]),
                FracAdd(self.ctx.current_time, grace_duration),
                FracSub(duration, grace_duration), duration,
                articulation_flags(note), note.tied),
            note.ornaments, note, duration),
        duration)))

\* Lines 542-580: the pitches of a chord in turn.
RECURSIVE CompilePitches(_, _, _, _)
CompilePitches(self, chord, pitches, duration) ==
    IF pitches = <<>> THEN self
    ELSE Bind(CompilePitch(self, midi_number(Head(pitches)),
                           self.ctx.current_time, duration, duration,
                           articulation_flags(chord), chord.tied),
              LAMBDA s1 : CompilePitches(s1, chord, Tail(pitches), duration))

_compile_chord(self, chord, tuplet_ratio) ==
    Bind(FracMul(total_value(chord.duration), tuplet_ratio), LAMBDA duration :
    AdvanceTime(CompilePitches(self, chord, chord.pitches, duration), duration))

_compile_rest(self, rest, tuplet_ratio) ==
    Bind(FracMul(total_value(rest.duration), tuplet_ratio), LAMBDA duration :
    AdvanceTime(add(self, RestEvent(self.ctx.current_time, self.ctx.staff_id,
                                    self.ctx.voice_id, duration)),
                duration))

_compile_dynamic(self, dynamic) ==
    add([self EXCEPT !.ctx.current_velocity = velocity(dynamic.type)],
        DynamicEvent(self.ctx.current_time, self.ctx.staff_id,
                     self.ctx.voice_id, dynamic.type, velocity(dynamic.type)))

_compile_pedal(self, pedal) ==
    Bind(PedalEvent(self.ctx.current_time, self.ctx.staff_id,
                    self.ctx.voice_id, 0),
         LAMBDA up :
         IF pedal.type = "DOWN" THEN add(self, [up EXCEPT !.value = 127])
         ELSE IF pedal.type = "UP" THEN add(self, up)
         ELSE IF pedal.type = "CHANGE"
         THEN add(add(self, up), [up EXCEPT !.value = 127])
         ELSE self)

_compile_time_signature(self, time_sig) ==
    add([self EXCEPT !.ctx.time_signature =
            <<time_sig.numerator, time_sig.denominator>>],
        TimeSignatureEvent(self.ctx.current_time, self.ctx.staff_id,
            self.ctx.voice_id, time_sig.numerator, time_sig.denominator))

RECURSIVE _compile_content(_, _, _)

\* `for item in ...: self._compile_content(item, ratio)`
RECURSIVE CompileItems(_, _, _)
CompileItems(self, items, tuplet_ratio) ==
    IF items = <<>> THEN self
    ELSE Bind(_compile_content(self, Head(items), tuplet_ratio),
              LAMBDA s1 : CompileItems(s1, Tail(items), tuplet_ratio))

\* Faulty variant of _compile_tuplet: the ratio of the enclosing tuplet is
\* dropped.
CompileTupletOwnRatio(self, tuplet, outer_ratio) ==
    CompileItems(self, tuplet.contents, ratio(tuplet))

_compile_tuplet(self, tuplet, outer_ratio) ==
    CompileItems(self, tuplet.contents, FracMul(ratio(tuplet), outer_ratio))

_compile_slur(self, slur, tuplet_ratio) ==
    CompileItems(self, slur.contents, tuplet_ratio)

\* Lines 425-433: each voice block from measure_start; the result is the
\* compiler and voice_end_times.values().
RECURSIVE CompileVoiceBlocks(_, _, _, _, _)
CompileVoiceBlocks(self, measure, voice_nums, measure_start, end_times) ==
    IF voice_nums = <<>> THEN [self |-> self, end_times |-> end_times]
    ELSE Bind(CompileItems([self EXCEPT !.ctx.voice_id = Head(voice_nums),
                                        !.ctx.current_time = measure_start],
                           VoiceBlockItems(measure, Head(voice_nums)), One),
              LAMBDA s1 :
              CompileVoiceBlocks(s1, measure, Tail(voice_nums), measure_start,
                                 end_times \cup {s1.ctx.current_time}))

\* Faulty variant of _compile_measure: the voice number of the last voice
\* block stays in force after the measure.
CompileMeasureKeepsBlockVoice(self, measure) ==
    IF VoiceBlockNumbers(measure) # {}
    THEN Bind(CompileVoiceBlocks(self, measure,
                  Sorted(VoiceBlockNumbers(measure)), self.ctx.current_time, {}),
              LAMBDA blocks :
              [CompileItems(
                   [blocks.self EXCEPT !.ctx.current_time = self.ctx.current_time],
                   SelectSeq(measure.contents, LAMBDA it : ~IsVoiceBlock(it)),
                   One)
                  EXCEPT !.ctx.current_time =
                      CHOOSE t \in blocks.end_times :
                          \A u \in blocks.end_times : ~FracLt(t, u)])
    ELSE CompileItems(self, measure.contents, One)

_compile_measure(self, measure) ==
    IF VoiceBlockNumbers(measure) # {}
    THEN Bind(CompileVoiceBlocks(self, measure,
                  Sorted(VoiceBlockNumbers(measure)), self.ctx.current_time, {}),
              LAMBDA blocks :
              [CompileItems(
                   [blocks.self EXCEPT !.ctx.voice_id = self.ctx.voice_id,
                                       !.ctx.current_time = self.ctx.current_time],
                   SelectSeq(measure.contents, LAMBDA it : ~IsVoiceBlock(it)),
                   One)
                  EXCEPT !.ctx.current_time =
                      CHOOSE t \in blocks.end_times :
                          \A u \in blocks.end_times : ~FracLt(t, u)])
    ELSE CompileItems(self, measure.contents, One)

_compile_content(self, item, tuplet_ratio) ==
    IF item.kind = "Measure" THEN _compile_measure(self, item)
    ELSE IF item.kind = "Note" THEN _compile_note(self, item, tuplet_ratio)
    ELSE IF item.kind = "Chord" THEN _compile_chord(self, item, tuplet_ratio)
    ELSE IF item.kind = "Rest" THEN _compile_rest(self, item, tuplet_ratio)
    ELSE IF item.kind = "Tuplet" THEN _compile_tuplet(self, item, tuplet_ratio)
    ELSE IF item.kind = "Slur" THEN _compile_slur(self, item, tuplet_ratio)
    ELSE IF item.kind = "Dynamic" THEN _compile_dynamic(self, item)
    ELSE IF item.kind = "Pedal" THEN _compile_pedal(self, item)
    ELSE IF item.kind = "TimeSignature" THEN _compile_time_signature(self, item)
    ELSE self

DirectContent(staff) == SelectSeq(staff.contents, LAMBDA it : it.kind # "Voice")

\* Lines 349-355: the i-th directly placed item of a staff, as voice 1.
CompileDirectContent(self, item, i) ==
    _compile_content(
        IF i = 1 THEN [self EXCEPT !.ctx.voice_id = 1, !.ctx.current_time = Zero]
        ELSE self,
        item, One)

\* The walk of compile(): the handler calls in the order the code makes them.
CompileWalk(sc) ==
    Concat([s \in 1..Len(sc.staves) |->
        <<Work("staff", s, 0, 0)>> \o
        Concat([v \in 1..Len(Voices(sc.staves[s])) |->
            <<Work("voice", s, v, 0)>> \o
            [i \in 1..Len(Voices(sc.staves[s])[v].contents) |->
                Work("content", s, v, i)]]) \o
        [i \in 1..Len(DirectContent(sc.staves[s])) |-> Work("direct", s, 0, i)]])
    \o <<Work("finish", 0, 0, 0)>>

-----------------------------------------------------------------------------
(* The scores of the model *)

C4  == Pitch("C", "None", 4)
D4  == Pitch("D", "None", 4)
E4  == Pitch("E", "None", 4)

h  == Duration(Fraction(1, 2), 0)
q  == Duration(Fraction(1, 4), 0)
e  == Duration(Fraction(1, 8), 0)
qd == Duration(Fraction(1, 4), 1)

SeqsUpTo(S, n) == UNION {[1..k -> S] : k \in 0..n}

\* Durations: notes, chords, rests, dotted values, nested tuplets, slurs
\* and a mid-measure time signature.
DurationItems ==
    {Note(C4, q, FALSE), Note(C4, h, FALSE), Note(C4, qd, FALSE), Rest(q),
     Rest(e), Chord(<<C4, E4>>, h, FALSE),
     Tuplet(3, 2, <<Note(C4, q, FALSE), Note(D4, q, FALSE), Rest(q)>>),
     Tuplet(3, 2, <<Note(C4, q, FALSE), Rest(q),
                    Tuplet(2, 4, <<Note(D4, e, FALSE)>>)>>),
     Slur(<<Note(C4, q, FALSE),
            Tuplet(3, 2, <<Rest(e), Rest(e), Note(D4, e, FALSE)>>)>>),
     TimeSig(3, 4)}

\* Pedal markers, dynamics and the structural errors.
MarkerItems ==
    {Pedal("DOWN"), Pedal("UP"), Pedal("CHANGE"), Dynamic("f"), Dynamic("zz"),
     Note(C4, h, FALSE), Tuplet(3, 2, <<>>), Tuplet(3, 0, <<Note(C4, q, FALSE)>>),
     Slur(<<>>)}

\* Ties: tied and untied notes and chords, bare and inside slurs and tuplets.
TieItems ==
    {Note(C4, q, TRUE), Note(C4, q, FALSE), Note(D4, q, FALSE),
     Note(C4, h, FALSE), Chord(<<C4, D4>>, q, TRUE), Chord(<<D4, E4>>, q, FALSE),
     Slur(<<Note(C4, q, TRUE)>>),
     Tuplet(1, 1, <<Slur(<<Note(C4, q, TRUE)>>)>>)}

\* In-measure voice blocks, with free items beside them.
VoiceBlockItems_ ==
    {VoiceItem(1, Note(C4, h, FALSE)), VoiceItem(1, Note(C4, q, FALSE)),
     VoiceItem(2, Note(D4, h, FALSE)), VoiceItem(2, Note(D4, q, TRUE)),
     VoiceItem(3, Rest(h)), Note(E4, q, FALSE), Pedal("UP"), TimeSig(3, 4)}

\* What the compiler expands: chords, ties, grace notes, ornaments, also
\* inside a tuplet, and an articulation.
ExpandedItems ==
    {Note(C4, h, FALSE), Note(C4, h, TRUE), Rest(h), Chord(<<C4, E4>>, h, FALSE),
     [Note(C4, h, FALSE) EXCEPT !.ornaments = <<Ornament("TRILL")>>],
     [Note(D4, h, FALSE) EXCEPT !.ornaments = <<Ornament("TURN")>>,
                                !.articulations = <<"STACCATO">>],
     [Note(C4, h, FALSE) EXCEPT !.grace_notes = <<GraceNote(D4)>>],
     Tuplet(3, 2, <<Chord(<<C4, D4>>, q, TRUE), Note(C4, q, FALSE),
                    [Note(D4, q, FALSE) EXCEPT
                        !.ornaments = <<Ornament("MORDENT")>>,
                        !.grace_notes = <<GraceNote(E4), GraceNote(C4)>>]>>),
     Tuplet(3, 2, <<Chord(<<C4, D4>>, q, TRUE), Chord(<<C4, D4>>, q, FALSE),
                    [Note(E4, q, FALSE) EXCEPT
                        !.grace_notes = <<GraceNote(D4)>>]>>)}

\* The top of the pitch range, a trill with a written auxiliary, a 5-in-4
\* tuplet of sixteenths inside a 3-in-2 tuplet and a note with two grace
\* notes inside a tuplet.
ExtremeItems ==
    {Note(Pitch("B", "None", 9), h, FALSE), Rest(h),
     [Note(Pitch("G", "None", 9), h, FALSE) EXCEPT !.ornaments = <<Ornament("TURN")>>],
     [Note(C4, h, FALSE) EXCEPT
         !.ornaments = <<[Ornament("TRILL") EXCEPT !.auxiliary_pitch = <<E4>>]>>],
     Tuplet(3, 2, <<Note(C4, q, FALSE), Rest(q),
                    Tuplet(5, 4, [i \in 1..5 |->
                        Note(D4, Duration(Fraction(1, 16), 0), FALSE)])>>),
     Tuplet(3, 2, <<[Note(C4, q, FALSE) EXCEPT
                        !.grace_notes = <<GraceNote(D4), GraceNote(E4)>>],
                    Rest(q), Rest(q)>>)}

RichMeasures ==
    SeqsUpTo(DurationItems, MaxItems) \cup SeqsUpTo(MarkerItems, MaxItems)
    \cup SeqsUpTo(TieItems, MaxItems) \cup SeqsUpTo(VoiceBlockItems_, MaxItems)
    \cup SeqsUpTo(ExpandedItems, MaxItems) \cup SeqsUpTo(ExtremeItems, MaxItems)

SmallItems ==
    {Note(C4, h, TRUE), Note(C4, h, FALSE), Note(D4, h, FALSE), Dynamic("f")}
SmallMeasures == SeqsUpTo(SmallItems, MaxSmallItems) \ {<<>>}

StaffName ==
    <<"s1", "s2", "s3", "s4", "s5", "s6", "s7", "s8", "s9", "s10", "s11", "s12",
      "s13", "s14", "s15", "s16", "s17", "s18">>

Scores ==
    \* one staff, one directly placed measure
    {Score(<<Staff("rh", "", <<Measure(0, m)>>)>>, ts) :
        m \in RichMeasures, ts \in {NoTimeSignature, TimeSignature(2, 4)}}
    \cup
    \* one staff, one voice, two measures
    {Score(<<Staff("rh", "piano", <<Voice(1, <<Measure(0, m1), Measure(7, m2)>>)>>)>>,
           TimeSignature(2, 4)) :
        m1 \in SmallMeasures, m2 \in SmallMeasures}
    \cup
    \* one staff, two voices
    {Score(<<Staff("rh", "kazoo", <<Voice(1, <<Measure(0, m1)>>),
                                   Voice(2, <<Measure(0, m2)>>)>>)>>,
           TimeSignature(2, 4)) :
        m1 \in SmallMeasures, m2 \in SmallMeasures}
    \cup
    \* two staves, a directly placed measure each
    {Score(<<Staff("rh", "", <<Measure(0, m1)>>),
             Staff(name, "", <<Measure(0, m2)>>)>>, TimeSignature(2, 4)) :
        m1 \in SmallMeasures, m2 \in SmallMeasures, name \in {"rh", "lh"}}

\* Scores of up to MaxStaves staves, all of different names or the third a
\* second staff of the first name; the odd staves have an instrument and a
\* directly placed measure, the even ones two voices of one measure.
StaffScores ==
    {Score([i \in 1..n |->
               Staff(IF i = again THEN StaffName[1] ELSE StaffName[i],
                     IF i % 2 = 1 THEN "violin" ELSE "",
                     IF i % 2 = 1 THEN <<Measure(0, <<Note(C4, h, FALSE)>>)>>
                     ELSE <<Voice(1, <<Measure(0, <<Note(D4, h, FALSE)>>)>>),
                            Voice(2, <<Measure(0, <<Rest(h)>>)>>)>>)],
           TimeSignature(2, 4)) :
        n \in 1..MaxStaves, again \in {0, 3}}

\* A measure with in-measure voice blocks that is not the first of its
\* staff or voice: voices of different lengths, a pedal marker inside a
\* voice block and free markers and notes beside the blocks.
BlockItems_ ==
    {VoiceItem(1, Note(C4, h, FALSE)), VoiceItem(1, Note(C4, q, FALSE)),
     VoiceItem(2, Note(D4, h, FALSE)), VoiceItem(2, Rest(q)),
     VoiceItem(2, Pedal("UP")), Dynamic("f"), Pedal("DOWN"), Note(E4, q, FALSE)}

\* Notes and a chord with articulations, alone and combined.
Articulated(item, articulations) == [item EXCEPT !.articulations = articulations]
ArticulatedItems ==
    {Note(C4, q, FALSE), Rest(q),
     Articulated(Note(C4, q, FALSE), <<"STACCATO">>),
     Articulated(Note(D4, q, FALSE), <<"STACCATISSIMO">>),
     Articulated(Note(C4, q, FALSE), <<"TENUTO">>),
     Articulated(Note(D4, q, FALSE), <<"LEGATO">>),
     Articulated(Note(E4, q, FALSE), <<"ACCENT">>),
     Articulated(Note(C4, q, FALSE), <<"STACCATISSIMO", "STACCATO">>),
     Articulated(Note(D4, q, FALSE), <<"TENUTO", "STACCATISSIMO">>),
     Articulated(Chord(<<C4, E4>>, q, FALSE), <<"STACCATO", "ACCENT">>)}

\* One MIDI number in two spellings, tied and untied.
SpellingItems ==
    {Note(Pitch("C", "SHARP", 4), q, TRUE), Note(Pitch("C", "SHARP", 4), q, FALSE),
     Note(Pitch("D", "FLAT", 4), q, FALSE), Note(Pitch("D", "FLAT", 4), q, TRUE),
     Note(C4, q, FALSE)}

BlockScores ==
    \* a measure with voice blocks after a measure, in a staff and in a voice
    {Score(<<Staff("rh", "", <<Measure(0, <<Note(C4, h, FALSE)>>),
                               Measure(0, m)>>)>>, TimeSignature(2, 4)) :
        m \in SeqsUpTo(BlockItems_, MaxItems) \ {<<>>}}
    \cup
    {Score(<<Staff("rh", "", <<Voice(2, <<Measure(0, <<Note(C4, h, FALSE)>>),
                                         Measure(0, m)>>)>>)>>,
           TimeSignature(2, 4)) :
        m \in SeqsUpTo(BlockItems_, MaxItems) \ {<<>>}}
    \cup
    \* one measure of articulated notes or of respelled ties
    {Score(<<Staff("rh", "", <<Measure(0, m)>>)>>, TimeSignature(2, 4)) :
        m \in SeqsUpTo(ArticulatedItems, MaxItems)
                  \cup SeqsUpTo(SpellingItems, MaxItems)}
    \cup
    \* a half note with seven, eight or nine grace notes
    {Score(<<Staff("rh", "", <<Measure(0,
               <<[Note(C4, h, FALSE) EXCEPT
                     !.grace_notes = [i \in 1..n |-> GraceNote(D4)]]>>)>>)>>,
           TimeSignature(2, 4)) :
        n \in 7..9}
    \cup
    \* a time signature between two directly placed measures
    {Score(<<Staff("rh", "", <<Measure(0, m1), TimeSig(3, 4), Measure(0, m2)>>)>>,
           TimeSignature(2, 4)) :
        m1 \in SeqsUpTo({Note(C4, h, FALSE), Note(C4, q, FALSE)}, MaxSmallItems),
        m2 \in SeqsUpTo({Note(D4, h, FALSE), Note(D4, q, FALSE)}, MaxSmallItems)}
    \cup
    \* a time signature between two measures of a voice
    {Score(<<Staff("rh", "", <<Voice(1, <<Measure(0, m1), TimeSig(3, 4),
                                         Measure(0, m2)>>),
                               Voice(2, <<Measure(0, <<Rest(h)>>)>>)>>)>>,
           TimeSignature(2, 4)) :
        m1 \in SeqsUpTo({Note(C4, h, FALSE), Note(C4, q, FALSE)}, MaxSmallItems),
        m2 \in SeqsUpTo({Note(D4, h, FALSE), Note(D4, q, FALSE)}, MaxSmallItems)}

\* Scores compiled one after the other: a tie left pending, the same note
\* untied, a dynamic, two staves, two voices, an instrument.
AgainScores ==
    {Score(<<Staff("rh", "", <<Measure(0, <<Note(C4, h, TRUE)>>)>>)>>,
           TimeSignature(2, 4)),
     Score(<<Staff("rh", "", <<Measure(0, <<Note(C4, h, FALSE)>>)>>)>>,
           TimeSignature(2, 4)),
     Score(<<Staff("rh", "", <<Measure(0, <<Dynamic("f"), Note(C4, q, FALSE),
                                            Note(C4, q, FALSE)>>)>>)>>,
           TimeSignature(2, 4)),
     Score(<<Staff("lh", "", <<Measure(0, <<Note(D4, h, FALSE)>>)>>),
             Staff("rh", "", <<Measure(0, <<Note(C4, h, FALSE)>>)>>)>>,
           TimeSignature(2, 4)),
     Score(<<Staff("rh", "", <<Voice(1, <<Measure(0, <<Note(C4, h, FALSE)>>)>>),
                               Voice(2, <<Measure(0, <<Rest(h)>>)>>)>>)>>,
           TimeSignature(2, 4)),
     Score(<<Staff("rh", "violin", <<Measure(0, <<Note(C4, h, FALSE)>>)>>)>>,
           NoTimeSignature)}

-----------------------------------------------------------------------------
(* analyze(score, strict), one handler call per step *)

CurWork == Walk(score)[step]

Init ==
    /\ score \in Scores
    /\ \E strict \in BOOLEAN : ctx = AnalyzeBegin(score, strict)
    /\ pc = "analyze"
    /\ step = 1
    /\ result = "none"
    /\ cctx = <<>>
    /\ graph = <<>>
    /\ calls = <<>>
    /\ synth = <<>>

\* A SemanticError leaves analyze(); otherwise the walk goes on.
Advance(c1) ==
    /\ ctx' = c1
    /\ IF ctx'.raised
       THEN pc' = "done" /\ result' = "raised" /\ step' = step
       ELSE pc' = pc /\ result' = result /\ step' = step + 1
    /\ UNCHANGED <<score, cctx, graph, calls, synth>>

CurStaff == score.staves[CurWork.staff]
CurVoice == Voices(CurStaff)[CurWork.voice]

ValidateStaff ==
    /\ pc = "analyze" /\ CurWork.op = "staff"
    /\ Advance(_validate_staff(ctx, CurStaff))

ValidateVoice ==
    /\ pc = "analyze" /\ CurWork.op = "voice"
    /\ Advance(_validate_voice(ctx, CurVoice))

ValidateMeasure ==
    /\ pc = "analyze" /\ CurWork.op = "measure"
    /\ Advance(ValidateVoiceMeasure(ctx, Measures(CurVoice)[CurWork.measure],
                                    CurWork.measure))

ValidateDirect ==
    /\ pc = "analyze" /\ CurWork.op = "direct"
    /\ Advance(ValidateDirectMeasure(ctx, DirectMeasures(CurStaff)[CurWork.measure],
                                     CurWork.measure))

ValidateVoiceAlignment ==
    /\ pc = "analyze" /\ CurWork.op = "align"
    /\ Advance(_validate_voice_alignment(ctx, Voices(CurStaff)))

\* The caller compiles the score analyze() returned a report for.
AnalyzeReturn ==
    /\ pc = "analyze" /\ CurWork.op = "finish"
    /\ ctx' = AnalyzeEnd(ctx)
    /\ result' = IF ctx'.raised THEN "raised" ELSE "returned"
    /\ pc' = IF ctx'.raised THEN "done" ELSE "compile"
    /\ step' = 0
    /\ UNCHANGED <<score, cctx, graph, calls, synth>>

-----------------------------------------------------------------------------
(* compile(score), one handler call per step *)

Self == [ctx |-> cctx, graph |-> graph]
CurCompile == CompileWalk(score)[step]
CompileStaffOf == score.staves[CurCompile.staff]

Compiled(self) ==
    /\ cctx' = self.ctx
    /\ graph' = self.graph
    /\ step' = step + 1
    /\ UNCHANGED <<score, pc, ctx, result, calls, synth>>

\* Faulty variant of CompileStart: compile() goes on with the pending ties,
\* the velocity and the channels of the call before.
CompileStartKeepsContext ==
    /\ pc = "compile" /\ step = 0
    /\ Compiled(IF cctx = <<>> THEN CompileBegin(score)
                ELSE [CompileBegin(score) EXCEPT
                         !.ctx.pending_ties = cctx.pending_ties,
                         !.ctx.current_velocity = cctx.current_velocity,
                         !.ctx.next_channel = cctx.next_channel,
                         !.ctx.staff_channels = cctx.staff_channels])

CompileStart ==
    /\ pc = "compile" /\ step = 0
    /\ Compiled(CompileBegin(score))

CompileStaff ==
    /\ pc = "compile" /\ step > 0 /\ CurCompile.op = "staff"
    /\ Compiled(_compile_staff(Self, CompileStaffOf))

CompileVoice ==
    /\ pc = "compile" /\ step > 0 /\ CurCompile.op = "voice"
    /\ Compiled(_compile_voice(Self, Voices(CompileStaffOf)[CurCompile.voice]))

CompileVoiceContent ==
    /\ pc = "compile" /\ step > 0 /\ CurCompile.op = "content"
    /\ Compiled(_compile_content(Self,
           Voices(CompileStaffOf)[CurCompile.voice].contents[CurCompile.measure],
           One))

CompileDirect ==
    /\ pc = "compile" /\ step > 0 /\ CurCompile.op = "direct"
    /\ Compiled(CompileDirectContent(Self,
           DirectContent(CompileStaffOf)[CurCompile.measure], CurCompile.measure))

\* compile, lines 296-299: the events are sorted and the graph returned.
CompileReturn ==
    /\ pc = "compile" /\ step > 0 /\ CurCompile.op = "finish"
    /\ graph' = [graph EXCEPT !.events = sort(<<>>, @)]
    /\ pc' = "done"
    /\ UNCHANGED <<score, step, ctx, result, cctx, calls, synth>>

Next ==
    \/ ValidateStaff
    \/ ValidateVoice
    \/ ValidateMeasure
    \/ ValidateDirect
    \/ ValidateVoiceAlignment
    \/ AnalyzeReturn
    \/ CompileStart
    \/ CompileStaff
    \/ CompileVoice
    \/ CompileVoiceContent
    \/ CompileDirect
    \/ CompileReturn

Spec == Init /\ [][Next]_vars

\* The same program run on the many-staff scores.
InitStaves ==
    /\ score \in StaffScores
    /\ \E strict \in BOOLEAN : ctx = AnalyzeBegin(score, strict)
    /\ pc = "analyze"
    /\ step = 1
    /\ result = "none"
    /\ cctx = <<>>
    /\ graph = <<>>
    /\ calls = <<>>
    /\ synth = <<>>

SpecStaves == InitStaves /\ [][Next]_vars

\* The same program run on the scores of voice blocks, articulations,
\* respelled ties, many grace notes and time signatures between measures.
InitBlocks ==
    /\ score \in BlockScores
    /\ \E strict \in BOOLEAN : ctx = AnalyzeBegin(score, strict)
    /\ pc = "analyze"
    /\ step = 1
    /\ result = "none"
    /\ cctx = <<>>
    /\ graph = <<>>
    /\ calls = <<>>
    /\ synth = <<>>

SpecBlocks == InitBlocks /\ [][Next]_vars

\* compile() is called again, on the same EventCompiler or on a new one
\* (__init__, lines 252-254), with a score of the caller's choice; the
\* graph the call before returned stays with the caller.
CompileAgain ==
    /\ pc = "done" /\ result = "returned"
    /\ Len(calls) < MaxCalls - 1
    /\ calls' = Append(calls, [score |-> score, graph |-> graph,
                               staff_channels |-> cctx.staff_channels])
    /\ score' \in AgainScores
    /\ \E fresh \in BOOLEAN :
          /\ cctx' = IF fresh THEN CompilerContext ELSE cctx
          /\ graph' = IF fresh THEN EventGraph ELSE graph
    /\ pc' = "compile"
    /\ step' = 0
    /\ UNCHANGED <<ctx, result, synth>>

InitAgain ==
    /\ score \in AgainScores
    /\ \E strict \in BOOLEAN : ctx = AnalyzeBegin(score, strict)
    /\ pc = "analyze"
    /\ step = 1
    /\ result = "none"
    /\ cctx = <<>>
    /\ graph = <<>>
    /\ calls = <<>>
    /\ synth = <<>>

NextAgain ==
    \/ Next
    \/ CompileAgain

SpecAgain == InitAgain /\ [][NextAgain]_vars

-----------------------------------------------------------------------------
(* clef/backends/fluidsynth_backend.py.  play(graph, blocking=False) has    *)
(* initialized the synthesizer, cleared the stop event and started the      *)
(* playback thread on _play_events; the caller then calls stop().  `synth`  *)
(* holds the backend's fields, `sounding` the (channel, note) pairs the     *)
(* synthesizer has on, `thread` and `main` where the two threads are.  One  *)
(* action is one step of one thread.                                        *)

\* The graphs played; they hold no TempoEvent.
PlayGraphs ==
    LET events == {NoteEvent(Zero, "rh", 1, 60, Fraction(1, 2), 80, 0),
                   NoteEvent(Fraction(1, 2), "rh", 1, 62, Fraction(1, 2), 80, 0),
                   NoteEvent(Zero, "lh", 1, 48, One, 80, 1),
                   DynamicEvent(Zero, "rh", 1, "f", 96)}
    IN  {[EventGraph EXCEPT !.events = played] :
            played \in SeqsUpTo(events, MaxEvents)}

\* events_with_time.sort(key=lambda x: x[0]); list.sort is stable.
RECURSIVE SortByTime(_, _)
SortByTime(sorted, timed) ==
    IF timed = <<>> THEN sorted
    ELSE Bind(Len(SelectSeq(sorted, LAMBDA x : ~FracLt(Head(timed).time, x.time))),
              LAMBDA k :
              SortByTime(SubSeq(sorted, 1, k) \o <<Head(timed)>>
                             \o SubSeq(sorted, k + 1, Len(sorted)),
                         Tail(timed)))

\* With no tempo change time_to_seconds(t) is t * 240 / initial_tempo.
_convert_to_seconds(g) ==
    LET time_to_seconds(t) == FracMul(t, Fraction(240, g.initial_tempo))
    IN  SortByTime(<<>>, Concat([i \in 1..Len(g.events) |->
            IF g.events[i].type = "NoteEvent"
            THEN <<[time |-> time_to_seconds(g.events[i].start_time),
                    kind |-> "note_on", event |-> g.events[i]],
                   [time |-> time_to_seconds(
                                FracAdd(g.events[i].start_time,
                                        effective_duration(g.events[i]))),
                    kind |-> "note_off", event |-> g.events[i]]>>
            ELSE <<[time |-> time_to_seconds(g.events[i].start_time),
                    kind |-> "other", event |-> g.events[i]]>>]))

InitPlay ==
    /\ graph \in PlayGraphs
    /\ synth = [stop_event |-> FALSE, playing |-> FALSE, current_tempo |-> 120,
                active_notes |-> [channel \in 0..MaxChannel |-> <<>>],
                sounding |-> {}, timed_events |-> <<>>, index |-> 0,
                thread |-> "start", main |-> "idle", channel |-> 0]
    /\ score = Score(<<>>, NoTimeSignature)
    /\ ctx = <<>>
    /\ pc = "done"
    /\ step = 0
    /\ result = "none"
    /\ cctx = <<>>
    /\ calls = <<>>

\* _play_events, lines 182-193: the graph is sorted in place and converted.
PlayStart ==
    /\ synth.thread = "start"
    /\ graph' = [graph EXCEPT !.events = sort(<<>>, @)]
    /\ LET timed_events == _convert_to_seconds(graph')
       IN  synth' = [synth EXCEPT !.current_tempo = graph.initial_tempo,
                                  !.timed_events = timed_events,
                                  !.index = 1,
                                  !.playing = timed_events # <<>>,
                                  !.thread = IF timed_events = <<>> THEN "done"
                                             ELSE "loop"]
    /\ UNCHANGED <<score, pc, step, ctx, result, cctx, calls>>

\* Lines 198-200: the next timed event, unless the stop event is set.
PlayCheck ==
    /\ synth.thread = "loop"
    /\ synth' = [synth EXCEPT !.thread =
                     IF synth.index > Len(synth.timed_events) \/ synth.stop_event
                     THEN "end" ELSE "wait"]
    /\ UNCHANGED <<score, pc, step, ctx, result, cctx, graph, calls>>

\* Lines 202-213: the wait for the event's time, left when the time has
\* come or the stop event is set, and the test of the stop event after it.
PlayWait ==
    /\ synth.thread = "wait"
    /\ synth' = [synth EXCEPT !.thread =
                     IF synth.stop_event THEN "end" ELSE "process"]
    /\ UNCHANGED <<score, pc, step, ctx, result, cctx, graph, calls>>

\* _process_event: the call of the synthesizer.
PlayProcess ==
    /\ synth.thread = "process"
    /\ LET timed == synth.timed_events[synth.index]
           key == <<timed.event.channel, timed.event.midi_note>>
       IN  synth' = [synth EXCEPT
                        !.sounding =
                            IF timed.kind = "note_on" THEN @ \cup {key}
                            ELSE IF timed.kind = "note_off" THEN @ \ {key}
                            ELSE @,
                        !.thread = "record"]
    /\ UNCHANGED <<score, pc, step, ctx, result, cctx, graph, calls>>

\* _process_event: the update of _active_notes after the call; then the
\* loop goes on with the next timed event.
PlayRecord ==
    /\ synth.thread = "record"
    /\ LET timed == synth.timed_events[synth.index]
           channel == timed.event.channel
           notes == synth.active_notes[channel]
           first == CHOOSE i \in 1..Len(notes) :
                        /\ notes[i] = timed.event.midi_note
                        /\ \A j \in 1..(i - 1) : notes[j] # timed.event.midi_note
       IN  synth' = [synth EXCEPT
                        !.active_notes[channel] =
                            IF timed.kind = "note_on"
                            THEN Append(@, timed.event.midi_note)
                            ELSE IF /\ timed.kind = "note_off"
                                    /\ \E i \in 1..Len(notes) :
                                           notes[i] = timed.event.midi_note
                            THEN SubSeq(notes, 1, first - 1)
                                     \o SubSeq(notes, first + 1, Len(notes))
                            ELSE @,
                        !.index = @ + 1,
                        !.thread = "loop"]
    /\ UNCHANGED <<score, pc, step, ctx, result, cctx, graph, calls>>

\* Lines 218-222: after the loop.
PlayEnd ==
    /\ synth.thread = "end"
    /\ synth' = [synth EXCEPT !.playing = FALSE, !.thread = "done"]
    /\ UNCHANGED <<score, pc, step, ctx, result, cctx, graph, calls>>

\* stop, line 323.
Stop ==
    /\ synth.main = "idle"
    /\ synth' = [synth EXCEPT !.stop_event = TRUE, !.main = "sweep", !.channel = 0]
    /\ UNCHANGED <<score, pc, step, ctx, result, cctx, graph, calls>>

\* stop, lines 327-329: noteoff for every note listed for the channel.
SweepNotes ==
    /\ synth.main = "sweep"
    /\ LET notes == synth.active_notes[synth.channel]
       IN  synth' = [synth EXCEPT
                        !.sounding = @ \ {<<synth.channel, notes[i]>> :
                                              i \in 1..Len(notes)},
                        !.main = "clear"]
    /\ UNCHANGED <<score, pc, step, ctx, result, cctx, graph, calls>>

\* stop, line 330: the channel's list is replaced by an empty one.
SweepClear ==
    /\ synth.main = "clear"
    /\ synth' = [synth EXCEPT
                     !.active_notes[synth.channel] = <<>>,
                     !.channel = @ + 1,
                     !.main = IF synth.channel = MaxChannel THEN "join"
                              ELSE "sweep"]
    /\ UNCHANGED <<score, pc, step, ctx, result, cctx, graph, calls>>

\* stop, lines 332-334: join(timeout=1.0) returns when the playback thread
\* has ended, and after a second when it has not.
StopJoin ==
    /\ synth.main = "join"
    /\ synth' = [synth EXCEPT !.main = "returned"]
    /\ UNCHANGED <<score, pc, step, ctx, result, cctx, graph, calls>>

NextPlay ==
    \/ PlayStart
    \/ PlayCheck
    \/ PlayWait
    \/ PlayProcess
    \/ PlayRecord
    \/ PlayEnd
    \/ Stop
    \/ SweepNotes
    \/ SweepClear
    \/ StopJoin

SpecPlay == InitPlay /\ [][NextPlay]_vars

-----------------------------------------------------------------------------
(* Notions the properties are stated with, written from their statements *)

IsMeasureWork(w) == w.op \in {"measure", "direct"}
WorkMeasure(sc, w) ==
    IF w.op = "measure"
    THEN Measures(Voices(sc.staves[w.staff])[w.voice])[w.measure]
    ELSE DirectMeasures(sc.staves[w.staff])[w.measure]
WorkVoice(sc, w) ==
    IF w.op = "measure" THEN Voices(sc.staves[w.staff])[w.voice].number ELSE 1
WorkNumber(sc, w) ==
    IF WorkMeasure(sc, w).number # 0 THEN WorkMeasure(sc, w).number
    ELSE w.measure

AtMeasure == pc = "analyze" /\ IsMeasureWork(CurWork)
TheMeasure == WorkMeasure(score, CurWork)
AnalysisOver == result # "none"

HasVoiceBlock(measure) ==
    \E i \in 1..Len(measure.contents) : measure.contents[i].kind = "voice"
OfKind(seq, kinds) == SelectSeq(seq, LAMBDA x : x.kind \in kinds)
NewErrors == SubSeq(ctx'.errors, Len(ctx.errors) + 1, Len(ctx'.errors))
NewWarnings == SubSeq(ctx'.warnings, Len(ctx.warnings) + 1, Len(ctx'.warnings))
IsPrefix(a, b) == Len(a) <= Len(b) /\ SubSeq(b, 1, Len(a)) = a

\* The exact rational length of a run of items: a note, chord or rest counts
\* its written value, a tuplet normal/actual of what it holds, a slur what it
\* holds, anything else nothing.
RECURSIVE ExactSum(_)
ExactSum(items) ==
    IF items = <<>> THEN Zero
    ELSE LET it == Head(items)
             own == IF it.kind \in {"Note", "Chord", "Rest"}
                    THEN total_value(it.duration)
                    ELSE IF it.kind = "Tuplet"
                    THEN FracMul(Fraction(it.normal, it.actual),
                                 ExactSum(it.contents))
                    ELSE IF it.kind = "Slur" THEN ExactSum(it.contents)
                    ELSE Zero
         IN  FracAdd(own, ExactSum(Tail(items)))

\* The time signatures written in the measures of walk positions 1..k.
RECURSIVE SignaturesUpTo(_, _)
SignaturesUpTo(sc, k) ==
    IF k = 0 THEN <<>>
    ELSE SignaturesUpTo(sc, k - 1) \o
         (IF IsMeasureWork(Walk(sc)[k])
          THEN OfKind(WorkMeasure(sc, Walk(sc)[k]).contents, {"TimeSignature"})
          ELSE <<>>)

\* numerator/denominator of the signature in force: the last one written up
\* to walk position k, else the score's, else 4/4.
SignatureValue(sc, k) ==
    LET written == SignaturesUpTo(sc, k)
    IN  IF written # <<>>
        THEN Fraction(written[Len(written)].numerator,
                      written[Len(written)].denominator)
        ELSE IF sc.time_signature # NoTimeSignature
        THEN Fraction(sc.time_signature.numerator, sc.time_signature.denominator)
        ELSE Fraction(4, 4)

-----------------------------------------------------------------------------
(* Measure duration *)

\* C1: when the analyzer checks a measure without voice blocks it reports a
\* measure-duration error if and only if the exact sum of the item durations
\* (tuplet ratios applied recursively, slurs transparent) differs from
\* numerator/denominator of the signature in force; never more than one.
\* (In strict mode an error raised by an item of the measure ends the
\* analysis before the measure's duration is checked.)
MeasureDurationIffSumDiffers ==
    [][(/\ AtMeasure
        /\ ~HasVoiceBlock(TheMeasure)
        /\ (ctx'.raised =>
                ctx'.errors[Len(ctx'.errors)].kind = "measure_duration"))
       => (Len(OfKind(NewErrors, {"measure_duration"})) =
              IF ExactSum(TheMeasure.contents) # SignatureValue(score, step)
              THEN 1 ELSE 0)]_vars

\* A measure holding a tuplet that is too long was rejected.
TooLongTupletMeasureRejected ==
    /\ result = "returned"
    /\ Len(score.staves) = 1
    /\ score.staves[1].contents[1].kind = "Measure"
    /\ ~HasVoiceBlock(score.staves[1].contents[1])
    /\ OfKind(score.staves[1].contents[1].contents, {"Tuplet"}) # <<>>
    /\ FracLt(SignatureValue(score, 2),
              ExactSum(score.staves[1].contents[1].contents))
    /\ OfKind(ctx.errors, {"measure_duration"}) # <<>>

-----------------------------------------------------------------------------
(* Ties *)

Midis(item) == {midi_number(item.pitches[i]) : i \in 1..Len(item.pitches)}

\* A tied note or chord whose next neighbour in the measure lacks one of
\* its pitches.
TieNotFollowed(measure) ==
    /\ \A i \in 1..Len(measure.contents) : IsNoteOrChord(measure.contents[i])
    /\ \E i \in 1..(Len(measure.contents) - 1) :
          /\ measure.contents[i].tied
          /\ ~(Midis(measure.contents[i]) \subseteq Midis(measure.contents[i + 1]))

\* C2: a tied-forward pitch must be immediately followed, in the same
\* (staff, voice), by a note or chord with the same MIDI number: an analysis
\* that returns has reported a tie error for every score in which a measure
\* of notes and chords has a tied item whose next item lacks the pitch.
TieImmediatelyFollowed ==
    (/\ result = "returned"
     /\ \E k \in 1..Len(Walk(score)) :
           /\ IsMeasureWork(Walk(score)[k])
           /\ TieNotFollowed(WorkMeasure(score, Walk(score)[k])))
    => OfKind(ctx.errors, {"tie_resolution", "unresolved_tie"}) # <<>>

\* The notes and chords of a run of items that the analyzer examines: it
\* looks into tuplets and slurs, and inside those into tuplets only.
RECURSIVE ExaminedNotes(_, _)
ExaminedNotes(items, nested) ==
    IF items = <<>> THEN <<>>
    ELSE LET it == Head(items)
             own == IF IsNoteOrChord(it) THEN <<it>>
                    ELSE IF it.kind = "Tuplet" \/ (it.kind = "Slur" /\ ~nested)
                    THEN ExaminedNotes(it.contents, TRUE)
                    ELSE <<>>
         IN  own \o ExaminedNotes(Tail(items), nested)

\* <<staff name, voice number, note or chord>> in the order of the walk, for
\* the measures without voice blocks.
RECURSIVE NoteEntries(_, _)
NoteEntries(sc, k) ==
    IF k = 0 THEN <<>>
    ELSE NoteEntries(sc, k - 1) \o
         (IF /\ IsMeasureWork(Walk(sc)[k])
             /\ ~HasVoiceBlock(WorkMeasure(sc, Walk(sc)[k]))
          THEN LET w == Walk(sc)[k]
                   notes == ExaminedNotes(WorkMeasure(sc, w).contents, FALSE)
               IN  [i \in 1..Len(notes) |->
                       <<sc.staves[w.staff].name, WorkVoice(sc, w), notes[i]>>]
          ELSE <<>>)

\* The keys still tied at the end: the last note or chord of the (staff,
\* voice) that holds the MIDI number is tied forward.
ResidualTies(sc) ==
    LET entries == NoteEntries(sc, Len(Walk(sc)))
        Holds(i, key) == /\ entries[i][1] = key[1] /\ entries[i][2] = key[2]
                         /\ key[3] \in Midis(entries[i][3])
    IN  {key \in UNION {{<<entries[i][1], entries[i][2], n>> :
                            n \in Midis(entries[i][3])} : i \in 1..Len(entries)} :
            \E i \in 1..Len(entries) :
                /\ Holds(i, key) /\ entries[i][3].tied
                /\ \A j \in (i + 1)..Len(entries) : ~Holds(j, key)}

NoVoiceBlocks(sc) ==
    \A k \in 1..Len(Walk(sc)) :
        IsMeasureWork(Walk(sc)[k]) => ~HasVoiceBlock(WorkMeasure(sc, Walk(sc)[k]))

\* C3: at the end of analysis every tie still pending yields an error: an
\* analysis that returns holds exactly one 'unresolved tie' error for each
\* (staff, voice, midi) key whose last note is tied forward, and none when
\* every tie is resolved; a strict analysis that ends on such an error
\* names a key still pending.
ResidualTiesAreErrors ==
    (AnalysisOver /\ NoVoiceBlocks(score)) =>
        LET unresolved == OfKind(ctx.errors, {"unresolved_tie"})
            keys == {<<unresolved[i].staff, unresolved[i].voice,
                       unresolved[i].midi>> : i \in 1..Len(unresolved)}
        IN  /\ keys \subseteq ResidualTies(score)
            /\ Len(unresolved) = Cardinality(keys)
            /\ result = "returned" => keys = ResidualTies(score)

\* A non-strict analysis returned two unresolved ties of one chord.
TwoResidualTiesReported ==
    /\ result = "returned"
    /\ Len(OfKind(ctx.errors, {"unresolved_tie"})) = 2
    /\ Cardinality(ResidualTies(score)) = 2

-----------------------------------------------------------------------------
(* Pedal *)

\* The two-state pedal machine, counting the errors and warnings it gives.
RECURSIVE PedalMachine(_, _)
PedalMachine(st, markers) ==
    IF markers = <<>> THEN st
    ELSE LET t == Head(markers).type
         IN  PedalMachine(
                 [down     |-> t \in {"DOWN", "CHANGE"},
                  errors   |-> st.errors +
                               (IF t = "UP" /\ ~st.down THEN 1 ELSE 0),
                  warnings |-> st.warnings +
                               (IF t = "DOWN" /\ st.down THEN 1 ELSE 0)],
                 Tail(markers))

\* C4: over the pedal markers of a measure the analyzer's pedal-down flag
\* follows DOWN@UP->DOWN, DOWN@DOWN->DOWN, UP@DOWN->UP, CHANGE@any->DOWN,
\* with an error exactly for each UP while up, a warning and no error
\* exactly for each DOWN while down, and nothing for CHANGE.
PedalFollowsMachine ==
    [][(AtMeasure /\ ~ctx'.raised) =>
          LET m == PedalMachine(
                       [down |-> ctx.pedal_down, errors |-> 0, warnings |-> 0],
                       OfKind(TheMeasure.contents, {"Pedal"}))
          IN  /\ ctx'.pedal_down = m.down
              /\ Len(OfKind(NewErrors, {"pedal_up"})) = m.errors
              /\ Len(SelectSeq(NewWarnings,
                               LAMBDA x : x = "pedal_already_down")) = m.warnings
       ]_vars

\* DOWN, DOWN, UP was analyzed: one warning, no error, the pedal up again.
PedalDownDownUpAnalyzed ==
    /\ result = "returned"
    /\ Len(score.staves) = 1
    /\ score.staves[1].contents[1].kind = "Measure"
    /\ score.staves[1].contents[1].contents =
           <<Pedal("DOWN"), Pedal("DOWN"), Pedal("UP")>>
    /\ ctx.warnings = <<"pedal_already_down">>
    /\ OfKind(ctx.errors, {"pedal_up"}) = <<>>
    /\ ~ctx.pedal_down

-----------------------------------------------------------------------------
(* Strict and non-strict mode *)

\* C5: in strict mode the first error short-circuits: at most one error is
\* ever recorded, recording it raises, analyze raises exactly when the
\* score has a violation, the error raised is the first one of the full
\* (non-strict) report, and nothing found after it is recorded.
StrictShortCircuits ==
    ctx.strict =>
        /\ Len(ctx.errors) <= 1
        /\ ctx.errors # <<>> => ctx.raised /\ result = "raised"
        /\ AnalysisOver =>
              LET full == Analyze(score, FALSE)
              IN  /\ IsPrefix(ctx.warnings, full.warnings)
                  /\ IF full.errors = <<>>
                     THEN result = "returned" /\ ctx.errors = <<>>
                     ELSE result = "raised" /\ ctx.errors = <<full.errors[1]>>

\* A strict analysis raised the first of several violations.
StrictRaisedFirstOfMany ==
    /\ ctx.strict /\ result = "raised"
    /\ Len(Analyze(score, FALSE).errors) >= 3
    /\ ctx.errors = <<Analyze(score, FALSE).errors[1]>>

\* C6 as stated: in non-strict mode analyze raises at the end if and only
\* if at least one error was collected.
NonStrictRaisesIffErrors ==
    (AnalysisOver /\ ~ctx.strict) => (result = "raised" <=> ctx.errors # <<>>)

\* C6, amended: in non-strict mode the analyzer continues past every error
\* and keeps all of them: no step raises, every step keeps the errors
\* recorded before it, the walk goes on to the next handler, and the last
\* step returns the report whether or not it holds errors.
NonStrictCollectsAndReturns ==
    [][(pc = "analyze" /\ ~ctx.strict) =>
          /\ ~ctx'.raised
          /\ IsPrefix(ctx.errors, ctx'.errors)
          /\ IF CurWork.op = "finish"
             THEN result' = "returned"
             ELSE pc' = "analyze" /\ step' = step + 1 /\ result' = "none"
       ]_vars

\* A non-strict analysis returned a report that holds errors.
NonStrictReturnedErrors ==
    ~ctx.strict /\ result = "returned" /\ Len(ctx.errors) >= 2

\* The measure-duration errors of a score in walk order: one for each
\* measure without voice blocks whose exact sum differs from the signature.
RECURSIVE WrongMeasures(_, _)
WrongMeasures(sc, k) ==
    IF k = 0 THEN <<>>
    ELSE WrongMeasures(sc, k - 1) \o
         (IF /\ IsMeasureWork(Walk(sc)[k])
             /\ ~HasVoiceBlock(WorkMeasure(sc, Walk(sc)[k]))
             /\ ExactSum(WorkMeasure(sc, Walk(sc)[k]).contents)
                    # SignatureValue(sc, k)
          THEN <<SemanticError("measure_duration",
                     sc.staves[Walk(sc)[k].staff].name,
                     WorkVoice(sc, Walk(sc)[k]), WorkNumber(sc, Walk(sc)[k]), 0)>>
          ELSE <<>>)

\* C7: in non-strict mode analyze returns the report to the caller, and the
\* report lists one entry for each violation in walk order: its
\* measure-duration errors are exactly the wrong measures of the score, in
\* the order of the walk (n wrong measures give n errors).
NonStrictReportInWalkOrder ==
    (AnalysisOver /\ ~ctx.strict) =>
        /\ result = "returned"
        /\ OfKind(ctx.errors, {"measure_duration"})
               = WrongMeasures(score, Len(Walk(score)))

\* A voice with two wrong measures gave two errors, in measure order.
TwoWrongMeasuresTwoErrors ==
    /\ ~ctx.strict /\ result = "returned"
    /\ Len(ctx.errors) = 2
    /\ ctx.errors[1].kind = "measure_duration" /\ ctx.errors[1].measure = 1
    /\ ctx.errors[2].kind = "measure_duration" /\ ctx.errors[2].measure = 7

-----------------------------------------------------------------------------
(* Voice blocks *)

BlockNumbers(measure) ==
    {measure.contents[i].number :
        i \in {j \in 1..Len(measure.contents) : measure.contents[j].kind = "voice"}}
\* The exact length of one voice of a measure: its blocks, in order.
BlockSum(measure, n) ==
    ExactSum(Concat([i \in 1..Len(measure.contents) |->
        IF measure.contents[i].kind = "voice" /\ measure.contents[i].number = n
        THEN measure.contents[i].contents ELSE <<>>]))

\* C8: for a measure with voice blocks the analyzer reports a duration
\* error unless every voice's total equals every other voice's total and
\* the signature value in force when the measure begins; when they all do,
\* no duration error is reported.  (A strict analysis that gets past the
\* measure has found them all equal.)
VoiceBlockDurationsChecked ==
    [][(AtMeasure /\ HasVoiceBlock(TheMeasure)) =>
          LET synchronized ==
                  \A n \in BlockNumbers(TheMeasure) :
                      BlockSum(TheMeasure, n) = SignatureValue(score, step - 1)
              reported == OfKind(NewErrors, {"voices_not_synchronized",
                                             "voice_block_duration"})
          IN  /\ ~ctx.strict => (reported = <<>> <=> synchronized)
              /\ (ctx.strict /\ ~ctx'.raised) => synchronized
       ]_vars

\* Two voices of one measure, both of the signature's length, were accepted.
SynchronizedVoicesAccepted ==
    /\ result = "returned" /\ ctx.errors = <<>>
    /\ Len(score.staves) = 1
    /\ score.staves[1].contents[1].kind = "Measure"
    /\ BlockNumbers(score.staves[1].contents[1]) = {1, 2}

\* C9: a measure that has a voice block and also a free note, chord, rest,
\* tuplet or slur outside every voice block is reported as an error: an
\* analysis that returns for a score with such a measure holds an error.
FreeItemsBesideVoiceBlocksRejected ==
    (/\ result = "returned"
     /\ \E k \in 1..Len(Walk(score)) :
           /\ IsMeasureWork(Walk(score)[k])
           /\ HasVoiceBlock(WorkMeasure(score, Walk(score)[k]))
           /\ OfKind(WorkMeasure(score, Walk(score)[k]).contents,
                     {"Note", "Chord", "Rest", "Tuplet", "Slur"}) # <<>>)
    => ctx.errors # <<>>

-----------------------------------------------------------------------------
(* Duration exactness *)

\* The notes, chords and rests of a run of items in order, each with the
\* length it sounds for: its written value times the ratios of the tuplets
\* around it.
RECURSIVE Leaves(_, _)
Leaves(items, r) ==
    IF items = <<>> THEN <<>>
    ELSE LET it == Head(items)
         IN  (IF it.kind \in {"Note", "Chord", "Rest"}
              THEN <<[item |-> it, length |-> FracMul(total_value(it.duration), r)]>>
              ELSE IF it.kind = "Tuplet"
              THEN Leaves(it.contents, FracMul(Fraction(it.normal, it.actual), r))
              ELSE IF it.kind = "Slur" THEN Leaves(it.contents, r)
              ELSE <<>>)
             \o Leaves(Tail(items), r)

FreeItems(measure) == SelectSeq(measure.contents, LAMBDA it : it.kind # "voice")
BlockItems(measure, n) ==
    Concat([i \in 1..Len(measure.contents) |->
        IF measure.contents[i].kind = "voice" /\ measure.contents[i].number = n
        THEN measure.contents[i].contents ELSE <<>>])

\* The measures of a (staff, voice): the measures of the staff's voices of
\* that number, its directly placed measures for voice 1, and any measure
\* with a voice block of that number.
InVoice(sc, k, name, v) ==
    /\ IsMeasureWork(Walk(sc)[k])
    /\ sc.staves[Walk(sc)[k].staff].name = name
    /\ IF HasVoiceBlock(WorkMeasure(sc, Walk(sc)[k]))
       THEN v \in BlockNumbers(WorkMeasure(sc, Walk(sc)[k]))
       ELSE v = WorkVoice(sc, Walk(sc)[k])

\* The signature value a measure is validated against.
MeasureSignature(sc, k) ==
    IF HasVoiceBlock(WorkMeasure(sc, Walk(sc)[k]))
    THEN SignatureValue(sc, k - 1) ELSE SignatureValue(sc, k)

\* The sum of the signature values of the measures of a (staff, voice) among
\* walk positions 1..k.
RECURSIVE SignatureTotal(_, _, _, _)
SignatureTotal(sc, k, name, v) ==
    IF k = 0 THEN Zero
    ELSE FracAdd(SignatureTotal(sc, k - 1, name, v),
                 IF InVoice(sc, k, name, v) THEN MeasureSignature(sc, k)
                 ELSE Zero)

\* What a (staff, voice) plays, in order, over walk positions 1..k.
RECURSIVE VoiceLeaves(_, _, _, _)
VoiceLeaves(sc, k, name, v) ==
    IF k = 0 THEN <<>>
    ELSE VoiceLeaves(sc, k - 1, name, v) \o
         (IF ~InVoice(sc, k, name, v) THEN <<>>
          ELSE IF HasVoiceBlock(WorkMeasure(sc, Walk(sc)[k]))
          THEN Leaves(BlockItems(WorkMeasure(sc, Walk(sc)[k]), v), One)
          ELSE Leaves(WorkMeasure(sc, Walk(sc)[k]).contents, One))

\* For each chord, its length once more for every pitch beyond the first.
RECURSIVE ChordSurplus(_)
ChordSurplus(leaves) ==
    IF leaves = <<>> THEN Zero
    ELSE FracAdd(IF Head(leaves).item.kind = "Chord"
                 THEN FracMul(Fraction(Len(Head(leaves).item.pitches) - 1, 1),
                              Head(leaves).length)
                 ELSE Zero,
                 ChordSurplus(Tail(leaves)))

\* The exact sum of the durations of the NoteEvents and RestEvents of a
\* (staff, voice).
RECURSIVE EventSum(_, _, _)
EventSum(events, name, v) ==
    IF events = <<>> THEN Zero
    ELSE FracAdd(IF /\ Head(events).type \in {"NoteEvent", "RestEvent"}
                    /\ Head(events).staff_id = name
                    /\ Head(events).voice_id = v
                 THEN Head(events).duration ELSE Zero,
                 EventSum(Tail(events), name, v))

StaffNames(sc) == {sc.staves[s].name : s \in 1..Len(sc.staves)}
VoiceNumbers == 1..3
AllLeaves(sc) ==
    Concat([k \in 1..Len(Walk(sc)) |->
        IF IsMeasureWork(Walk(sc)[k])
        THEN Leaves(FreeItems(WorkMeasure(sc, Walk(sc)[k])), One) \o
             Concat([n \in VoiceNumbers |->
                 Leaves(BlockItems(WorkMeasure(sc, Walk(sc)[k]), n), One)])
        ELSE <<>>])

\* The score was analyzed without an error and compiled.
CompiledValid == pc = "done" /\ result = "returned" /\ ctx.errors = <<>>

Ornamented(sc) ==
    \E i \in 1..Len(AllLeaves(sc)) : AllLeaves(sc)[i].item.ornaments # <<>>

\* A note with grace notes continues a tie: the last note or chord of its
\* pitch before it in its (staff, voice) is tied.
GraceOnTiedNote(sc) ==
    \E name \in StaffNames(sc), v \in VoiceNumbers :
        LET leaves == VoiceLeaves(sc, Len(Walk(sc)), name, v)
        IN  \E i \in 1..Len(leaves) :
              /\ leaves[i].item.grace_notes # <<>>
              /\ \E j \in 1..(i - 1) :
                    /\ leaves[j].item.tied
                    /\ Midis(leaves[i].item) \subseteq Midis(leaves[j].item)
                    /\ \A l \in (j + 1)..(i - 1) :
                           Midis(leaves[i].item) \cap Midis(leaves[l].item) = {}

\* A measure with voice blocks that also has notes, chords or rests outside
\* them.
FreeBesideBlocks(sc) ==
    \E k \in 1..Len(Walk(sc)) :
        /\ IsMeasureWork(Walk(sc)[k])
        /\ HasVoiceBlock(WorkMeasure(sc, Walk(sc)[k]))
        /\ Leaves(FreeItems(WorkMeasure(sc, Walk(sc)[k])), One) # <<>>

\* The analysis walk position of the measure a compile step works on.
AnalysisPosition(sc, w) ==
    CHOOSE k \in 1..Len(Walk(sc)) :
        /\ Walk(sc)[k].staff = w.staff
        /\ Walk(sc)[k].measure = w.measure
        /\ \/ w.op = "content" /\ Walk(sc)[k].op = "measure"
                               /\ Walk(sc)[k].voice = w.voice
           \/ w.op = "direct" /\ Walk(sc)[k].op = "direct"

AtCompiledMeasure ==
    pc = "compile" /\ step > 0 /\ CurCompile.op \in {"content", "direct"}

-----------------------------------------------------------------------------
(* Velocity propagation *)

\* The DynamicEvents of the staff of a NoteEvent that start at or before it.
DynamicsUpTo(events, note) ==
    SelectSeq(events, LAMBDA d : /\ d.type = "DynamicEvent"
                                 /\ d.staff_id = note.staff_id
                                 /\ ~FracLt(note.start_time, d.start_time))

\* C11: in the compiled graph of a score analyzed without an error, the
\* velocity of every NoteEvent is the velocity of the most recent
\* DynamicEvent of its staff at or before its start, or 80 when the staff
\* has none, also with several staves or several voices in a staff.
VelocityOfLatestStaffDynamic ==
    CompiledValid =>
        \A i \in 1..Len(graph.events) :
            graph.events[i].type = "NoteEvent" =>
                LET before == DynamicsUpTo(graph.events, graph.events[i])
                IN  graph.events[i].velocity =
                        IF before = <<>> THEN 80
                        ELSE before[Len(before)].velocity

-----------------------------------------------------------------------------
(* Channels *)

\* The staves that are the first of their name, in score order.
FirstStaves(sc) ==
    SelectSeq([i \in 1..Len(sc.staves) |-> i],
              LAMBDA i : \A j \in 1..(i - 1) :
                             sc.staves[j].name # sc.staves[i].name)

\* The k-th channel counted from 0 with 9 left out.
SkippingNine(k) == IF k < 9 THEN k ELSE k + 1

Compiling == pc \in {"compile", "done"} /\ cctx # <<>>
HasChannel(event) == event.type \in {"NoteEvent", "ProgramChangeEvent"}

\* C12: throughout a compile, the staff names that have a channel are the
\* first ones of the score in score order, the k-th of them (from 0) has the
\* k-th channel counted from 0 with 9 left out, so no staff has channel 9
\* and no two names share a channel; every NoteEvent and
\* ProgramChangeEvent carries the channel of its staff name; and in the
\* returned graph every staff name has its channel.
ChannelsSequentialSkippingNine ==
    Compiling =>
        /\ Len(cctx.staff_channels) <= Len(FirstStaves(score))
        /\ \A k \in 1..Len(cctx.staff_channels) :
              /\ cctx.staff_channels[k].key =
                     score.staves[FirstStaves(score)[k]].name
              /\ cctx.staff_channels[k].value = SkippingNine(k - 1)
              /\ cctx.staff_channels[k].value # 9
              /\ \A l \in 1..Len(cctx.staff_channels) :
                     cctx.staff_channels[k].value = cctx.staff_channels[l].value
                         => k = l
        /\ \A i \in 1..Len(graph.events) :
              HasChannel(graph.events[i]) =>
                  /\ Has(cctx.staff_channels, graph.events[i].staff_id)
                  /\ graph.events[i].channel =
                         Get(cctx.staff_channels, graph.events[i].staff_id)
        /\ pc = "done" =>
              Len(cctx.staff_channels) = Len(FirstStaves(score))

\* A compiled score of more than ten staves, two of them of one name.
ManyStavesCompiled ==
    /\ pc = "done" /\ result = "returned"
    /\ Len(score.staves) > 10
    /\ Len(FirstStaves(score)) < Len(score.staves)
    /\ \E i \in 1..Len(graph.events) :
          graph.events[i].type = "NoteEvent" /\ graph.events[i].channel = 10

\* C13: every NoteEvent and ProgramChangeEvent of a compiled graph has a
\* channel from 0 to 15, whatever the number of staves.
ChannelsWithinSixteen ==
    (pc = "done" /\ result = "returned") =>
        \A i \in 1..Len(graph.events) :
            HasChannel(graph.events[i]) => graph.events[i].channel \in 0..15

-----------------------------------------------------------------------------
(* Pitches *)

\* C14: in the compiled graph of a score analyzed without an error, every
\* NoteEvent has a MIDI note from 0 to 127, for every pitch of a letter A-G,
\* an octave 0-9 and any accidental, the notes of trills, mordents and
\* turns included.
MidiNotesWithinRange ==
    CompiledValid =>
        \A i \in 1..Len(graph.events) :
            graph.events[i].type = "NoteEvent" =>
                graph.events[i].midi_note \in 0..127

-----------------------------------------------------------------------------
(* Tuplet composition *)

RECURSIVE LeafTotal(_)
LeafTotal(leaves) ==
    IF leaves = <<>> THEN Zero
    ELSE FracAdd(Head(leaves).length, LeafTotal(Tail(leaves)))

\* What a run of leaves sounds as from a start on: each leaf at the end of
\* the one before, for its length; a chord once for each pitch.
RECURSIVE Sounding(_, _)
Sounding(leaves, start) ==
    IF leaves = <<>> THEN <<>>
    ELSE LET leaf == Head(leaves)
         IN  (IF leaf.item.kind = "Rest"
              THEN <<[type |-> "RestEvent", start_time |-> start,
                      duration |-> leaf.length, midi_note |-> 0]>>
              ELSE [i \in 1..Len(leaf.item.pitches) |->
                       [type |-> "NoteEvent", start_time |-> start,
                        duration |-> leaf.length,
                        midi_note |-> midi_number(leaf.item.pitches[i])]])
             \o Sounding(Tail(leaves), FracAdd(start, leaf.length))

\* The NoteEvents and RestEvents of a (staff, voice) in graph order.
VoiceEvents(events, name, v) ==
    LET own == SelectSeq(events, LAMBDA ev :
                   /\ ev.type \in {"NoteEvent", "RestEvent"}
                   /\ ev.staff_id = name /\ ev.voice_id = v)
    IN  [i \in 1..Len(own) |->
            [type |-> own[i].type, start_time |-> own[i].start_time,
             duration |-> own[i].duration, midi_note |-> own[i].midi_note]]

\* No note or chord is tied or has grace notes or ornaments, no measure has
\* voice blocks and no two staves have one name.
PlainScore(sc) ==
    /\ Len(FirstStaves(sc)) = Len(sc.staves)
    /\ NoVoiceBlocks(sc)
    /\ LET leaves == AllLeaves(sc)
       IN  \A i \in 1..Len(leaves) :
               /\ ~leaves[i].item.tied
               /\ leaves[i].item.grace_notes = <<>>
               /\ leaves[i].item.ornaments = <<>>

CompiledMeasure ==
    WorkMeasure(score, Walk(score)[AnalysisPosition(score, CurCompile)])

\* C15: a note, chord or rest sounds for its written value times the
\* product of the ratios normal/actual of all the tuplets around it, in the
\* analyzer and in the compiler: (1) a measure without voice blocks gets a
\* measure-duration error exactly when these lengths do not sum to the
\* signature value; (2) compiling a measure without voice blocks moves the
\* cursor on by the sum of these lengths; (3) in the compiled graph of a
\* score of plain notes, chords and rests analyzed without an error, the
\* NoteEvents and RestEvents of every (staff, voice) have these lengths as
\* durations and start each where the one before ends.
TupletRatiosMultiply ==
    /\ [][(/\ AtMeasure
            /\ ~HasVoiceBlock(TheMeasure)
            /\ (ctx'.raised =>
                    ctx'.errors[Len(ctx'.errors)].kind = "measure_duration"))
           => (OfKind(NewErrors, {"measure_duration"}) # <<>>
                  <=> LeafTotal(Leaves(TheMeasure.contents, One)) #
                          SignatureValue(score, step))]_vars
    /\ [][(AtCompiledMeasure /\ ~HasVoiceBlock(CompiledMeasure))
           => cctx'.current_time =
                  FracAdd(cctx.current_time,
                          LeafTotal(Leaves(CompiledMeasure.contents, One)))]_vars
    /\ []((CompiledValid /\ PlainScore(score))
           => \A name \in StaffNames(score), v \in VoiceNumbers :
                 VoiceEvents(graph.events, name, v) =
                     Sounding(VoiceLeaves(score, Len(Walk(score)), name, v),
                              Zero))

\* A 5-in-4 tuplet of sixteenths inside a 3-in-2 tuplet was compiled: the
\* last sixteenth lasts 1/16 * 8/15 = 1/30 and starts at 7/15.
NestedTupletCompiled ==
    /\ CompiledValid /\ PlainScore(score)
    /\ \E i \in 1..Len(AllLeaves(score)) :
          /\ AllLeaves(score)[i].item.duration.base_value = Fraction(1, 16)
          /\ AllLeaves(score)[i].length = FracMul(Fraction(1, 16), Fraction(8, 15))
    /\ \E i \in 1..Len(graph.events) :
          /\ graph.events[i].type = "NoteEvent"
          /\ graph.events[i].duration = Fraction(1, 30)
          /\ graph.events[i].start_time = Fraction(7, 15)

-----------------------------------------------------------------------------
(* Ordering *)

KindPriority(event) ==
    CASE event.type = "TempoEvent"         -> 0
      [] event.type = "TimeSignatureEvent" -> 1
      [] event.type = "ProgramChangeEvent" -> 2
      [] event.type = "DynamicEvent"       -> 3
      [] event.type = "PedalEvent"         -> 4
      [] event.type = "NoteEvent"          -> 10
      [] OTHER                             -> 20

SameKey(a, b) ==
    a.start_time = b.start_time /\ KindPriority(a) = KindPriority(b)
KeyBefore(a, b) ==
    \/ FracLt(a.start_time, b.start_time)
    \/ a.start_time = b.start_time /\ KindPriority(a) < KindPriority(b)

InKeyOrder(events) ==
    \A i, j \in 1..Len(events) : i < j => ~KeyBefore(events[j], events[i])

\* `after` holds the events of `before`, those of one key in the order they
\* have in `before`.
KeepsInsertionOrder(before, after) ==
    /\ Len(after) = Len(before)
    /\ \A i \in 1..Len(before) :
          SelectSeq(after, LAMBDA x : SameKey(x, before[i])) =
              SelectSeq(before, LAMBDA x : SameKey(x, before[i]))

\* C16: the sort at the end of compile leaves the events in the order of
\* (start_time, priority), the priorities being Tempo 0, TimeSignature 1,
\* ProgramChange 2, Dynamic 3, Pedal 4, Note 10, any other 20, and keeps the
\* events of one (start_time, priority) in their insertion order; every
\* graph compile returns is in that order.
SortedByTimeAndPriorityStably ==
    /\ [][(pc = "compile" /\ pc' = "done")
           => /\ InKeyOrder(graph'.events)
              /\ KeepsInsertionOrder(graph.events, graph'.events)]_vars
    /\ []((pc = "done" /\ result = "returned") => InKeyOrder(graph.events))

\* A returned graph in which the sort has moved a dynamic of voice 2 ahead
\* of the note of voice 1 compiled before it, the notes of the two voices
\* at that time staying in the order of their insertion.
DynamicSortedAheadOfEarlierNote ==
    /\ pc = "done" /\ result = "returned"
    /\ \E i, j, k \in 1..Len(graph.events) :
          /\ i < j /\ j < k
          /\ graph.events[i].type = "DynamicEvent"
          /\ graph.events[i].voice_id = 2
          /\ graph.events[j].type = "NoteEvent"
          /\ graph.events[j].voice_id = 1
          /\ graph.events[k].type = "NoteEvent"
          /\ graph.events[k].voice_id = 2
          /\ graph.events[i].start_time = graph.events[j].start_time
          /\ graph.events[j].start_time = graph.events[k].start_time

-----------------------------------------------------------------------------
(* Tie fusion *)

\* The leaves of a (staff, voice) with the time each starts at: the end of
\* the leaf before.
RECURSIVE Timed(_, _)
Timed(leaves, start) ==
    IF leaves = <<>> THEN <<>>
    ELSE <<[item |-> Head(leaves).item, length |-> Head(leaves).length,
            start |-> start]>>
         \o Timed(Tail(leaves), FracAdd(start, Head(leaves).length))

\* The chains of a run of notes of one pitch: a note goes on the chain of
\* the note before it when that note is tied forward, else starts a chain.
RECURSIVE Chains(_, _)
Chains(notes, chains) ==
    IF notes = <<>> THEN chains
    ELSE Chains(Tail(notes),
             IF chains # <<>> /\ chains[Len(chains)].open
             THEN [chains EXCEPT
                      ![Len(chains)].duration = FracAdd(@, Head(notes).length),
                      ![Len(chains)].open = Head(notes).item.tied]
             ELSE Append(chains, [start |-> Head(notes).start,
                                  duration |-> Head(notes).length,
                                  open |-> Head(notes).item.tied]))

\* The analysis walk position of the last measure compiled so far.
CompiledUpTo ==
    IF pc = "done" THEN Len(Walk(score))
    ELSE LET done == {AnalysisPosition(score, CompileWalk(score)[i]) :
                         i \in {j \in 1..(step - 1) :
                                   CompileWalk(score)[j].op \in {"content", "direct"}}}
         IN  IF done = {} THEN 0 ELSE CHOOSE k \in done : \A l \in done : l <= k

\* The chains of a pitch among the timed leaves of a (staff, voice).
ChainsSoFar(timed, midi) ==
    Chains(SelectSeq(timed, LAMBDA n : n.item.kind = "Note"
                                       /\ Midis(n.item) = {midi}),
           <<>>)

\* The NoteEvents of a pitch in a (staff, voice).
PitchEvents(name, v, midi) ==
    SelectSeq(graph.events, LAMBDA ev : /\ ev.type = "NoteEvent"
                                        /\ ev.staff_id = name /\ ev.voice_id = v
                                        /\ ev.midi_note = midi)

IsChainEvent(event, chain) ==
    /\ event.start_time = chain.start
    /\ event.duration = chain.duration
    /\ event.is_tied_to = chain.open

\* Single notes and rests only, bare or in slurs and tuplets: no chords,
\* grace notes, ornaments or voice blocks, and no two staves of one name.
NotesAndRests(sc) ==
    /\ Len(FirstStaves(sc)) = Len(sc.staves)
    /\ NoVoiceBlocks(sc)
    /\ LET leaves == AllLeaves(sc)
       IN  \A i \in 1..Len(leaves) :
               /\ leaves[i].item.kind \in {"Note", "Rest"}
               /\ leaves[i].item.grace_notes = <<>>
               /\ leaves[i].item.ornaments = <<>>

ScoreMidis(sc) ==
    LET leaves == AllLeaves(sc)
    IN  UNION {Midis(leaves[i].item) : i \in 1..Len(leaves)}

\* C17: in a score of single notes and rests, throughout a compile, the
\* notes of one pitch in a (staff, voice) compiled so far stand in the graph
\* as one NoteEvent for each chain of notes tied one to the next: it starts
\* where the first note of the chain starts and lasts the sum of the
\* durations of the notes of the chain.  While the last note of a chain is
\* tied forward the event of the chain is the pending entry of the key
\* (staff, voice, midi); otherwise the key is absent.  Compiling a measure
\* moves the cursor on by the sum of the durations of its notes, fused or
\* not.
TieChainsFuseIntoOneEvent ==
    /\ []((Compiling /\ NotesAndRests(score)) =>
            \A name \in StaffNames(score), v \in VoiceNumbers :
              LET timed == Timed(VoiceLeaves(score, CompiledUpTo, name, v), Zero)
              IN  \A midi \in ScoreMidis(score) :
                LET chains == ChainsSoFar(timed, midi)
                    events == PitchEvents(name, v, midi)
                    key    == <<name, v, midi>>
                IN  /\ Len(events) = Len(chains)
                    /\ \A c \in 1..Len(chains) :
                          \E i \in 1..Len(events) :
                              IsChainEvent(events[i], chains[c])
                    /\ Has(cctx.pending_ties, key)
                          <=> (chains # <<>> /\ chains[Len(chains)].open)
                    /\ Has(cctx.pending_ties, key) =>
                          /\ IsChainEvent(Get(cctx.pending_ties, key),
                                          chains[Len(chains)])
                          /\ \E i \in 1..Len(events) :
                                events[i] = Get(cctx.pending_ties, key))
    /\ [][(AtCompiledMeasure /\ NotesAndRests(score))
           => cctx'.current_time =
                  FracAdd(cctx.current_time,
                          LeafTotal(Leaves(CompiledMeasure.contents, One)))]_vars

\* A chain of two tied half notes is compiled and still open: the pending
\* entry of (rh, 1, 60) is the one fused event, a whole note from 0.
OpenChainOfTwoFused ==
    /\ pc = "compile" /\ cctx # <<>> /\ NotesAndRests(score)
    /\ Has(cctx.pending_ties, <<"rh", 1, 60>>)
    /\ Get(cctx.pending_ties, <<"rh", 1, 60>>).duration = Fraction(1, 1)
    /\ Get(cctx.pending_ties, <<"rh", 1, 60>>).start_time = Zero
    /\ Len(PitchEvents("rh", 1, 60)) = 1

-----------------------------------------------------------------------------
(* Ornaments *)

\* The timed leaves of staff "rh", voice 1.
RightHand == Timed(VoiceLeaves(score, Len(Walk(score)), "rh", 1), Zero)

\* One staff "rh" without voice blocks in which one note, neither tied nor
\* with grace notes, has ornaments and every other leaf is a rest.
OneOrnamentedNote ==
    /\ Len(score.staves) = 1 /\ score.staves[1].name = "rh"
    /\ NoVoiceBlocks(score)
    /\ LET leaves == RightHand
       IN  /\ \E i \in 1..Len(leaves) :
                 /\ leaves[i].item.kind = "Note"
                 /\ leaves[i].item.ornaments # <<>>
                 /\ leaves[i].item.grace_notes = <<>>
                 /\ ~leaves[i].item.tied
                 /\ \A j \in 1..Len(leaves) :
                        j # i => leaves[j].item.kind = "Rest"

TheOrnamentedNote ==
    LET leaves == RightHand
    IN  leaves[CHOOSE i \in 1..Len(leaves) : leaves[i].item.kind = "Note"]

GraphNotes == SelectSeq(graph.events, LAMBDA ev : ev.type = "NoteEvent")

\* C18: where the one note of a score has a trill and nothing else, the
\* compiled graph holds, for that note of duration D and MIDI m, exactly
\* eight NoteEvents, each of duration D/8, alternately of m and of the
\* auxiliary (the written auxiliary pitch, else m + 2), and no NoteEvent
\* of duration D beside them.
TrillReplacesNote ==
    (/\ CompiledValid /\ OneOrnamentedNote
     /\ Len(TheOrnamentedNote.item.ornaments) = 1
     /\ TheOrnamentedNote.item.ornaments[1].type = "TRILL")
    => LET note == TheOrnamentedNote
           m    == midi_number(note.item.pitches[1])
           trill == note.item.ornaments[1]
           aux  == IF trill.auxiliary_pitch # <<>>
                   THEN midi_number(trill.auxiliary_pitch[1]) ELSE m + 2
       IN  /\ Len(GraphNotes) = 8
           /\ \A i \in 1..Len(GraphNotes) :
                 /\ GraphNotes[i].duration = FracMul(note.length, Fraction(1, 8))
                 /\ GraphNotes[i].duration # note.length
                 /\ GraphNotes[i].midi_note = IF i % 2 = 1 THEN m ELSE aux

\* C19: where the one note of a score has a trill, a mordent or a turn,
\* starts at s and lasts D, every NoteEvent of the compiled graph starts at
\* or after s and ends at or before s + D and has the velocity in force, 80
\* when the score has no dynamic; and no event of any compiled graph starts
\* before time 0.
OrnamentWithinItsNote ==
    /\ (CompiledValid /\ OneOrnamentedNote)
       => \A i \in 1..Len(GraphNotes) :
              /\ ~FracLt(GraphNotes[i].start_time, TheOrnamentedNote.start)
              /\ ~FracLt(FracAdd(TheOrnamentedNote.start, TheOrnamentedNote.length),
                         FracAdd(GraphNotes[i].start_time, GraphNotes[i].duration))
              /\ OfKind([k \in 1..Len(graph.events) |->
                             [kind |-> graph.events[k].type]],
                        {"DynamicEvent"}) = <<>>
                    => GraphNotes[i].velocity = 80
    /\ (pc = "done" /\ result = "returned")
       => \A i \in 1..Len(graph.events) :
              ~FracLt(graph.events[i].start_time, Zero)

-----------------------------------------------------------------------------
(* Grace notes *)

\* What timed leaves sound as when every note starts an event of its own:
\* the k grace notes of a note of length D from its start on, D/8 each and
\* D/8 apart, then the note, k * D/8 later and shorter; a chord once for
\* each pitch; a rest as it is.
RECURSIVE GraceSounding(_)
GraceSounding(timed) ==
    IF timed = <<>> THEN <<>>
    ELSE LET leaf == Head(timed)
             unit == FracMul(leaf.length, Fraction(1, 8))
             k    == Len(leaf.item.grace_notes)
             taken == FracMul(Fraction(k, 1), unit)
         IN  (IF leaf.item.kind = "Rest"
              THEN <<[type |-> "RestEvent", start_time |-> leaf.start,
                      duration |-> leaf.length, midi_note |-> 0]>>
              ELSE IF leaf.item.kind = "Chord"
              THEN [i \in 1..Len(leaf.item.pitches) |->
                       [type |-> "NoteEvent", start_time |-> leaf.start,
                        duration |-> leaf.length,
                        midi_note |-> midi_number(leaf.item.pitches[i])]]
              ELSE [i \in 1..k |->
                       [type |-> "NoteEvent",
                        start_time |->
                            FracAdd(leaf.start, FracMul(Fraction(i - 1, 1), unit)),
                        duration |-> unit,
                        midi_note |-> midi_number(leaf.item.grace_notes[i].pitch)]]
                   \o <<[type |-> "NoteEvent",
                         start_time |-> FracAdd(leaf.start, taken),
                         duration |-> FracSub(leaf.length, taken),
                         midi_note |-> midi_number(leaf.item.pitches[1])]>>)
             \o GraceSounding(Tail(timed))

\* No note or chord is tied, so every note starts an event of its own, and
\* none has ornaments; no measure has voice blocks and no two staves have
\* one name.
UntiedScore(sc) ==
    /\ Len(FirstStaves(sc)) = Len(sc.staves)
    /\ NoVoiceBlocks(sc)
    /\ LET leaves == AllLeaves(sc)
       IN  \A i \in 1..Len(leaves) :
               ~leaves[i].item.tied /\ leaves[i].item.ornaments = <<>>

HasGraceNotes(sc) ==
    LET leaves == AllLeaves(sc)
    IN  \E i \in 1..Len(leaves) : leaves[i].item.grace_notes # <<>>

-----------------------------------------------------------------------------
(* Voice blocks in the compiler *)

\* The item a compile step works on, the voice number it is compiled under
\* and the cursor it is entered with.
CompiledItem ==
    IF CurCompile.op = "content"
    THEN Voices(CompileStaffOf)[CurCompile.voice].contents[CurCompile.measure]
    ELSE DirectContent(CompileStaffOf)[CurCompile.measure]
EnclosingVoice ==
    IF CurCompile.op = "content" THEN Voices(CompileStaffOf)[CurCompile.voice].number
    ELSE 1
EntryTime ==
    IF CurCompile.op = "direct" /\ CurCompile.measure = 1 THEN Zero
    ELSE cctx.current_time
AtCompiledBlockMeasure ==
    /\ pc = "compile" /\ step > 0 /\ CurCompile.op \in {"content", "direct"}
    /\ CompiledItem.kind = "Measure"
    /\ HasVoiceBlock(CompiledItem)
\* The event type a plain item is compiled to.
EventType(item) ==
    IF item.kind = "Note" THEN "NoteEvent"
    ELSE IF item.kind = "Rest" THEN "RestEvent"
    ELSE IF item.kind = "Dynamic" THEN "DynamicEvent"
    ELSE IF item.kind = "Pedal" THEN "PedalEvent"
    ELSE "TimeSignatureEvent"
\* No tie is pending and the measure has none: every note starts an event.
\* Its free items are plain: each is compiled to one event.
UntiedMeasure(measure) ==
    /\ cctx.pending_ties = <<>>
    /\ \A n \in BlockNumbers(measure) :
           \A i \in 1..Len(Leaves(BlockItems(measure, n), One)) :
               ~Leaves(BlockItems(measure, n), One)[i].item.tied
    /\ \A i \in 1..Len(FreeItems(measure)) :
           LET it == FreeItems(measure)[i]
           IN  \/ it.kind \in {"Dynamic", "TimeSignature", "Rest"}
               \/ it.kind = "Pedal" /\ it.type \in {"UP", "DOWN"}
               \/ /\ it.kind = "Note" /\ ~it.tied
                  /\ it.grace_notes = <<>> /\ it.ornaments = <<>>

-----------------------------------------------------------------------------
(* Sibling voices *)

\* A compile step works on the first item of a voice, a measure without
\* voice blocks that begins with a note, chord, rest or marker, and no tie
\* of this (staff, voice) is pending.
AtFirstMeasureOfVoice ==
    /\ pc = "compile" /\ step > 0 /\ CurCompile.op = "content"
    /\ CurCompile.measure = 1
    /\ CompiledItem.kind = "Measure"
    /\ ~HasVoiceBlock(CompiledItem)
    /\ CompiledItem.contents # <<>>
    /\ CompiledItem.contents[1].kind \in
           {"Note", "Chord", "Rest", "Dynamic", "Pedal", "TimeSignature"}
    /\ \A i \in 1..Len(cctx.pending_ties) :
           \/ cctx.pending_ties[i].key[1] # CompileStaffOf.name
           \/ cctx.pending_ties[i].key[2] # EnclosingVoice

\* C22: the voices of a staff are timestamped independently.  Entering a
\* voice sets the cursor to 0 and voice_id to the voice's number, whatever
\* the cursor the voice before it ended with; and the first event the
\* voice emits starts at 0 and carries the staff's name and the voice's
\* number.
SiblingVoicesStartAtZero ==
    /\ [][(pc = "compile" /\ step > 0 /\ CurCompile.op = "voice")
           => /\ cctx'.current_time = Zero
              /\ cctx'.voice_id =
                     Voices(CompileStaffOf)[CurCompile.voice].number]_vars
    /\ [][AtFirstMeasureOfVoice
           => /\ Len(graph'.events) > Len(graph.events)
              /\ LET first == graph'.events[Len(graph.events) + 1]
                 IN  /\ first.start_time = Zero
                     /\ first.voice_id = EnclosingVoice
                     /\ first.staff_id = CompileStaffOf.name]_vars

\* Voice 1 of two half notes was compiled to the end, and then voice 2:
\* its first note is at 0 under voice 2, though voice 1 ended at 1.
SecondVoiceAfterLongerVoice ==
    /\ pc = "done" /\ result = "returned"
    /\ Len(Voices(score.staves[1])) = 2
    /\ Voices(score.staves[1])[1].contents[1].contents =
           <<Note(C4, h, FALSE), Note(D4, h, FALSE)>>
    /\ Voices(score.staves[1])[2].contents[1].contents = <<Note(D4, h, FALSE)>>
    /\ \E i \in 1..Len(graph.events) :
          /\ graph.events[i].type = "NoteEvent"
          /\ graph.events[i].voice_id = 1
          /\ graph.events[i].start_time = Fraction(1, 2)
    /\ \E i \in 1..Len(graph.events) :
          /\ graph.events[i].type = "NoteEvent"
          /\ graph.events[i].voice_id = 2
          /\ graph.events[i].start_time = Zero

-----------------------------------------------------------------------------
(* compile() called again *)

\* C23: compile(score) is deterministic and starts afresh: whenever a call
\* has returned, every earlier call of the same behaviour that compiled
\* the same score, on this EventCompiler or another, with any other scores
\* compiled in between, returned an equal event graph and left the same
\* staff-to-channel mapping.
CompileStartsAfresh ==
    (pc = "done" /\ result = "returned")
    => \A i \in 1..Len(calls) :
           calls[i].score = score
           => /\ calls[i].graph = graph
              /\ calls[i].staff_channels = cctx.staff_channels

\* The untied C4 was compiled, then the score that leaves a tie on C4
\* pending in the same staff and voice, then the untied C4 again.
SameScoreCompiledAroundAnother ==
    /\ pc = "done" /\ result = "returned"
    /\ Len(calls) = 2
    /\ calls[1].score = score
    /\ score.staves[1].contents[1].contents = <<Note(C4, h, FALSE)>>
    /\ Len(score.staves) = 1 /\ score.staves[1].instrument = ""
    /\ calls[2].score.staves[1].contents[1].contents = <<Note(C4, h, TRUE)>>
    /\ calls[2].graph # graph
    /\ \E i \in 1..Len(graph.events) :
          /\ graph.events[i].type = "NoteEvent"
          /\ graph.events[i].duration = Fraction(1, 2)

-----------------------------------------------------------------------------
(* Articulations *)

\* The length a note of length d sounds for under its articulations: the
\* first of staccato, staccatissimo, tenuto or legato that it has decides.
ArticulatedLength(item, d) ==
    LET marks == {item.articulations[i] : i \in 1..Len(item.articulations)}
    IN  IF "STACCATO" \in marks THEN FracMul(d, Fraction(1, 2))
        ELSE IF "STACCATISSIMO" \in marks THEN FracMul(d, Fraction(1, 4))
        ELSE IF "TENUTO" \in marks \/ "LEGATO" \in marks THEN d
        ELSE FracMul(FracMul(d, Fraction(9, 1)), Fraction(1, 10))
\* One sounded length for every pitch of every note and chord, in order.
RECURSIVE SoundedLengths(_)
SoundedLengths(leaves) ==
    IF leaves = <<>> THEN <<>>
    ELSE LET leaf == Head(leaves)
         IN  (IF leaf.item.kind = "Rest" THEN <<>>
              ELSE [i \in 1..Len(leaf.item.pitches) |->
                       ArticulatedLength(leaf.item, leaf.length)])
             \o SoundedLengths(Tail(leaves))

\* C24: articulations change the sounded length only.  In the graph
\* compiled from a score of plain notes, chords and rests, in every (staff,
\* voice), (1) every note, chord and rest starts where the one before it
\* ends by its nominal duration D, and has D as its duration, whatever its
\* articulations; (2) effective_duration of every NoteEvent is D/2 with
\* staccato, else D/4 with staccatissimo, else D with tenuto or legato,
\* else 9D/10.
ArticulationsShortenSoundOnly ==
    (pc = "done" /\ result = "returned" /\ PlainScore(score))
    => \A name \in StaffNames(score), v \in VoiceNumbers :
          LET leaves == VoiceLeaves(score, Len(Walk(score)), name, v)
              notes == SelectSeq(graph.events, LAMBDA ev :
                           /\ ev.type = "NoteEvent"
                           /\ ev.staff_id = name /\ ev.voice_id = v)
          IN  /\ VoiceEvents(graph.events, name, v) = Sounding(leaves, Zero)
              /\ [i \in 1..Len(notes) |-> effective_duration(notes[i])] =
                     SoundedLengths(leaves)

\* A quarter with staccatissimo and staccato, a tenuto quarter and an
\* accented quarter were compiled: they start at 0, 1/4 and 1/2 and sound
\* for 1/8, 1/4 and 9/40.
ArticulatedQuartersCompiled ==
    /\ pc = "done" /\ result = "returned"
    /\ score.staves[1].contents[1].contents =
           <<Articulated(Note(C4, q, FALSE), <<"STACCATISSIMO", "STACCATO">>),
             Articulated(Note(C4, q, FALSE), <<"TENUTO">>),
             Articulated(Note(E4, q, FALSE), <<"ACCENT">>)>>
    /\ Len(graph.events) = 4
    /\ graph.events[2].start_time = Zero
    /\ effective_duration(graph.events[2]) = Fraction(1, 8)
    /\ graph.events[3].start_time = Fraction(1, 4)
    /\ effective_duration(graph.events[3]) = Fraction(1, 4)
    /\ graph.events[4].start_time = Fraction(1, 2)
    /\ effective_duration(graph.events[4]) = Fraction(9, 40)

-----------------------------------------------------------------------------
(* Enharmonic spelling of a tie *)

\* A tied note of the measure is directly followed by a note of the same
\* MIDI number spelled otherwise.
TieRespelled(measure) ==
    \E i \in 1..(Len(measure.contents) - 1) :
        LET a == measure.contents[i]
            b == measure.contents[i + 1]
        IN  /\ a.kind = "Note" /\ b.kind = "Note" /\ a.tied
            /\ midi_number(a.pitches[1]) = midi_number(b.pitches[1])
            /\ <<a.pitches[1].name, a.pitches[1].accidental>> #
                   <<b.pitches[1].name, b.pitches[1].accidental>>

\* C25 as stated: an analysis that returns for a score in which a tied
\* pitch is followed in its (staff, voice) by the same MIDI number in
\* another spelling (C#4 tied to Db4) has reported a tie-resolution error.
EnharmonicMismatchRejected ==
    (/\ result = "returned"
     /\ \E k \in 1..Len(Walk(score)) :
           /\ IsMeasureWork(Walk(score)[k])
           /\ TieRespelled(WorkMeasure(score, Walk(score)[k])))
    => \E i \in 1..Len(ctx.errors) : ctx.errors[i].kind = "tie_resolution"

-----------------------------------------------------------------------------
(* A time signature inside a measure *)

\* The items after the last time signature written in the measure.
RECURSIVE MeasureTail(_)
MeasureTail(items) ==
    IF \A i \in 1..Len(items) : items[i].kind # "TimeSignature" THEN items
    ELSE MeasureTail(Tail(items))
\* The score is one staff of one directly placed measure of notes, chords,
\* rests and at least one time signature.
ChangesSignatureInside(sc) ==
    /\ Len(sc.staves) = 1
    /\ Len(sc.staves[1].contents) = 1
    /\ sc.staves[1].contents[1].kind = "Measure"
    /\ LET items == sc.staves[1].contents[1].contents
       IN  /\ \A i \in 1..Len(items) :
                  items[i].kind \in {"Note", "Chord", "Rest", "TimeSignature"}
           /\ \E i \in 1..Len(items) : items[i].kind = "TimeSignature"

\* C26 as stated: after a time signature written inside a measure only
\* the items that follow it are measured against the new signature: an
\* analysis that returns holds a measure-duration error exactly when the
\* items after the change do not sum to the new signature's value.
TailMeasuredAgainstNewSignature ==
    (result = "returned" /\ ChangesSignatureInside(score))
    => LET items == score.staves[1].contents[1].contents
           tail == MeasureTail(items)
           change == items[Len(items) - Len(tail)]
       IN  (OfKind(ctx.errors, {"measure_duration"}) # <<>>)
           <=> (ExactSum(tail) # Fraction(change.numerator, change.denominator))

-----------------------------------------------------------------------------
(* A time signature between measures *)

\* A time signature stands between two measures of the contents.
DirectiveBetweenMeasures(contents) ==
    \E i \in 2..(Len(contents) - 1) :
        /\ contents[i].kind = "TimeSignature"
        /\ contents[i - 1].kind = "Measure"
        /\ contents[i + 1].kind = "Measure"
\* numerator/denominator of the signature active at position i of the
\* contents: the last one written before it, else the score's.
ActiveSignature(sc, contents, i) ==
    LET written == OfKind(SubSeq(contents, 1, i - 1), {"TimeSignature"})
    IN  IF written # <<>>
        THEN Fraction(written[Len(written)].numerator,
                      written[Len(written)].denominator)
        ELSE Fraction(sc.time_signature.numerator, sc.time_signature.denominator)
\* Every measure of the contents, of notes and rests only, sums to the
\* signature active at its position.
FilledInOrder(sc, contents) ==
    \A i \in 1..Len(contents) :
        contents[i].kind = "Measure"
        => /\ \A j \in 1..Len(contents[i].contents) :
                  contents[i].contents[j].kind \in {"Note", "Rest"}
           /\ ExactSum(contents[i].contents) = ActiveSignature(sc, contents, i)
\* The measures of the staff stand in one run of contents, the staff's own
\* or its first voice's, with a time signature between two of them.
DirectiveRun(sc) ==
    IF Voices(sc.staves[1]) = <<>> THEN sc.staves[1].contents
    ELSE Voices(sc.staves[1])[1].contents

\* C27 as stated: a time signature between two measures of a voice or
\* between two directly placed measures of a staff takes effect for the
\* measures after it only: an analysis that returns for a score whose
\* measures each sum to the signature active at their position (a 2/4
\* measure, `time 3/4`, a 3/4 measure) holds no measure-duration error.
DirectiveActsOnLaterMeasuresOnly ==
    (/\ result = "returned"
     /\ Len(score.staves) = 1
     /\ DirectiveBetweenMeasures(DirectiveRun(score))
     /\ FilledInOrder(score, DirectiveRun(score)))
    => OfKind(ctx.errors, {"measure_duration"}) = <<>>

-----------------------------------------------------------------------------
(* Pedal markers inside voice blocks *)

\* The measure has a ped_up inside a voice block and no pedal marker that
\* could have put the pedal down.
PedalUpInBlockWhileUp(measure) ==
    /\ \E i \in 1..Len(measure.contents) :
          /\ measure.contents[i].kind = "voice"
          /\ measure.contents[i].contents[1].kind = "Pedal"
          /\ measure.contents[i].contents[1].type = "UP"
    /\ \A i \in 1..Len(measure.contents) :
          ~(measure.contents[i].kind = "Pedal"
            /\ measure.contents[i].type \in {"DOWN", "CHANGE"})

\* C28 as stated: a ped_up inside an in-measure voice block while the
\* pedal is up is reported as an error, as it is in a plain measure: an
\* analysis that returns for a score whose only pedal markers are ped_up
\* markers inside voice blocks holds a pedal error.
PedalUpInVoiceBlockRejected ==
    (/\ result = "returned"
     /\ \A k \in 1..Len(Walk(score)) :
           IsMeasureWork(Walk(score)[k])
           => OfKind(WorkMeasure(score, Walk(score)[k]).contents, {"Pedal"}) = <<>>
     /\ \E k \in 1..Len(Walk(score)) :
           /\ IsMeasureWork(Walk(score)[k])
           /\ PedalUpInBlockWhileUp(WorkMeasure(score, Walk(score)[k])))
    => OfKind(ctx.errors, {"pedal_up"}) # <<>>

-----------------------------------------------------------------------------
(* Durations of the events *)

\* C29 as stated: in a graph compiled from a score analyzed without an
\* error every NoteEvent and RestEvent has a duration above 0, whatever
\* the number of grace notes of a note.
EventDurationsPositive ==
    CompiledValid
    => \A i \in 1..Len(graph.events) :
           graph.events[i].type \in {"NoteEvent", "RestEvent"}
           => FracLt(Zero, graph.events[i].duration)

-----------------------------------------------------------------------------
(* Stopping the playback *)

\* C30 as stated: once stop() has returned no note is left sounding and
\* every channel's list of active notes is empty, however the playback
\* thread and stop() interleave.
StopLeavesNothingSounding ==
    synth.main = "returned"
    => /\ synth.sounding = {}
       /\ \A channel \in 0..MaxChannel : synth.active_notes[channel] = <<>>

=============================================================================
